---- MODULE Spec2Model ----
(***************************************************************************)
(* A model of the pagination helper of faunadb-js (src/src/PageHelper.ts), *)
(* of the query constructors it calls and of the client (src/src/Client.ts)*)
(* that sends the queries.                                                 *)
(*                                                                         *)
(* Every JavaScript value is a record, so that any two values can be       *)
(* compared: Undefined, Null, a number, an opaque cursor, a page's data,   *)
(* an error, a query expression.  An object's missing key reads as         *)
(* Undefined, as in JavaScript.                                            *)
(***************************************************************************)
EXTENDS Integers, Sequences, FiniteSets, TLC

VARIABLES
    helpers,    \* the PageHelper objects, in order of creation
    arrays,     \* the _faunaFunctions array objects: helpers hold an index
    lineage,    \* history: per helper, the transforms its own derivation added
    calls,      \* the nextPage/previousPage/each/eachReverse calls not yet settled
    done,       \* history: the call that settled last, with all that it did
    issued,     \* the number of requests handed to client.query so far
    given,      \* history: the params the base helper was constructed with
    subject,    \* the host value a caller of the query constructors holds
    outcome,    \* the last call made on it, with what it returned or threw
    client,     \* the Client object: _observer and _lastSeen
    pending,    \* the requests of the client the transport has not answered yet
    requested,  \* the number of requests the client has sent so far
    settled,    \* history: the request that settled last, with all that was done
    received    \* history: the x-last-seen-txn headers delivered to the client

cvars == <<client, pending, requested, settled, received>>

vars ==
    <<helpers, arrays, lineage, calls, done, issued, given, subject, outcome, cvars>>

\* ------------------------------------------------------------------ bounds

\* The number of operations the callers perform in a run: each map or filter
\* call and each page request issued counts as one.
MaxOps == 3

\* ------------------------------------------------------------------ values

Undefined == [undefined |-> TRUE]
Null == [null |-> TRUE]

\* new Client(options): _observer is the observer option, null by default,
\* and _lastSeen is null.
NewClient(observer) == [observer |-> observer, lastSeen |-> Null]

\* No request of the client settled yet.
NoExchange == [state |-> "none"]

\* A client without an observer on which no request was made.
ClientUnused ==
    /\ client = NewClient(Null)
    /\ pending = <<>>
    /\ requested = 0
    /\ settled = NoExchange
    /\ received = {}

\* The number a caller passes as the page size.
SizeParam == [number |-> 2]

\* A cursor the caller passes to the constructor.
CallerCursor(dir) == [cursor |-> dir, request |-> 0]

\* A cursor the server reports in its response to request n: opaque, and
\* different from every other cursor.
ServerCursor(dir, n) == [cursor |-> dir, request |-> n]

\* The data of the page that answers request n.
PageData(n) == [data |-> n]

\* The error the query-execution collaborator rejects with.
TransportError == [error |-> "TransportError"]

\* What an assignment to a read-only property throws in strict-mode code.
TypeError == [error |-> "TypeError"]

\* The RangeError of the host: toISOString on a Date that holds no time.
RangeError == [error |-> "RangeError"]

\* The lambda expressions callers pass to map and filter.
Lambdas == {"f"}

\* ------------------------------------------------------------------ query.ts

\* Paginate(set, opts): { paginate: wrap(set), ...wrapValues(opts) }.
Paginate(set, opts) ==
    [paginate |-> set, size |-> opts.size, before |-> opts.before, after |-> opts.after]

\* Map(collection, lambda_expr): { map: wrap(lambda_expr), collection: wrap(collection) }.
QueryMap(collection, lambda) == [map |-> lambda, collection |-> collection]

\* Filter(collection, lambda_expr).
QueryFilter(collection, lambda) == [filter |-> lambda, collection |-> collection]

\* ------------------------------------------------------------------ PageHelper

EmptyObject == [size |-> Undefined, before |-> Undefined, after |-> Undefined]

\* Object.assign(target, source): an undefined source is skipped; the keys the
\* source holds overwrite the target's.
ObjectAssign(target, source) ==
    IF source = Undefined THEN target
    ELSE [k \in DOMAIN target |-> IF source[k] # Undefined THEN source[k] ELSE target[k]]

\* delete object[key]
Delete(object, key) == [object EXCEPT ![key] = Undefined]

\* The closure map() pushes: function(q) { return query.Map(q, lambda) }.
MapFunction(lambda) == [fn |-> "Map", lambda |-> lambda]

\* The closure filter() pushes: function(q) { return query.Filter(q, lambda) }.
FilterFunction(lambda) == [fn |-> "Filter", lambda |-> lambda]

\* Calling one of the pushed closures on q.
ApplyFunction(f, q) ==
    IF f.fn = "Map" THEN QueryMap(q, f.lambda) ELSE QueryFilter(q, f.lambda)

\* The constructor: the params are copied; a before key is moved to the before
\* field, and only when there is no before key an after key is moved to the
\* after field.  array is the index of the fresh _faunaFunctions array.
Constructor(set, params, array) ==
    LET copied == ObjectAssign(EmptyObject, params) IN
    IF params.before # Undefined
    THEN [set |-> set, params |-> Delete(copied, "before"),
          before |-> params.before, after |-> Undefined,
          faunaFunctions |-> array, writable |-> TRUE]
    ELSE IF params.after # Undefined
    THEN [set |-> set, params |-> Delete(copied, "after"),
          before |-> Undefined, after |-> params.after,
          faunaFunctions |-> array, writable |-> TRUE]
    ELSE [set |-> set, params |-> copied,
          before |-> Undefined, after |-> Undefined,
          faunaFunctions |-> array, writable |-> TRUE]

\* _clone(): Object.create with value-only property descriptors for client, set,
\* _faunaFunctions, before and after.  The array object is the receiver's own
\* (not a copy), there is no params property, and the properties are read-only.
Clone(self) ==
    [set |-> self.set, params |-> Undefined,
     before |-> self.before, after |-> self.after,
     faunaFunctions |-> self.faunaFunctions, writable |-> FALSE]

\* forEach over the array: q = lambda(q) for each closure, in array order.
RECURSIVE ApplyAll(_, _)
ApplyAll(fs, q) ==
    IF fs = <<>> THEN q ELSE ApplyAll(Tail(fs), ApplyFunction(Head(fs), q))

\* A variant of the options in which a call without a cursor sets no option.
PageOptsNoCursor(self, cursor, reverse) ==
    LET opts == ObjectAssign(EmptyObject, self.params) IN
    IF cursor # Undefined
    THEN IF reverse THEN [opts EXCEPT !.before = cursor]
                    ELSE [opts EXCEPT !.after = cursor]
    ELSE opts

\* The options _retrieveNextPage passes to Paginate.
PageOpts(self, cursor, reverse) ==
    LET opts == ObjectAssign(EmptyObject, self.params) IN
    IF cursor # Undefined
    THEN IF reverse THEN [opts EXCEPT !.before = cursor]
                    ELSE [opts EXCEPT !.after = cursor]
    ELSE IF reverse THEN [opts EXCEPT !.before = Null]
                    ELSE opts

\* _retrieveNextPage(cursor, reverse): the query handed to client.query, built
\* from the array as it is when the request is made.
RetrieveNextPage(self, fs, cursor, reverse) ==
    ApplyAll(fs, Paginate(self.set, PageOpts(self, cursor, reverse)))

\* A variant of _adjustCursors that assigns both cursors whatever the page reports.
AdjustCursorsAlways(self, page) ==
    IF ~self.writable THEN TypeError
    ELSE [self EXCEPT !.after = page.after, !.before = page.before]

\* _adjustCursors(page): the fields after the handler ran, or TypeError when it
\* assigns to a read-only property (the after assignment comes first).
AdjustCursors(self, page) ==
    IF page.after # Undefined /\ ~self.writable THEN TypeError
    ELSE LET s1 == IF page.after # Undefined
                   THEN [self EXCEPT !.after = page.after] ELSE self
         IN IF page.before # Undefined /\ ~s1.writable THEN TypeError
            ELSE IF page.before # Undefined
                 THEN [s1 EXCEPT !.before = page.before] ELSE s1

\* A variant of the cursor choice that forgets the direction.
NextCursorForward(page, reverse) == page.after

\* _consumePages: the cursor the traversal continues from.
NextCursor(page, reverse) == IF reverse THEN page.before ELSE page.after

\* What happens to a call when client.query resolves its request with a page,
\* a request it issues being the n-th, or rejects it with an error.
Request(n, q) == [ev |-> "request", n |-> n, q |-> q]
Response(page) == [ev |-> "response", page |-> page]
Rejection(error) == [ev |-> "rejection", error |-> error]
Callback(data) == [ev |-> "callback", data |-> data]

\* A variant of the handler that asks for the next page before it calls lambda.
ConsumePagesRequestFirst(self, fs, page, reverse, n) ==
    (IF NextCursor(page, reverse) # Undefined
     THEN <<Request(n, RetrieveNextPage(self, fs, NextCursor(page, reverse), reverse))>>
     ELSE <<>>) \o
    <<Callback(page.data)>>

\* A variant of the handler that never asks for another page.
ConsumePagesOnce(self, fs, page, reverse, n) == <<Callback(page.data)>>

\* The handler _consumePages returns, run on a page: lambda(page.data), then
\* the next request when the page reports a cursor in the direction.
ConsumePages(self, fs, page, reverse, n) ==
    <<Callback(page.data)>> \o
    (IF NextCursor(page, reverse) # Undefined
     THEN <<Request(n, RetrieveNextPage(self, fs, NextCursor(page, reverse), reverse))>>
     ELSE <<>>)

\* A variant in which the page handler is the rejection handler as well: the
\* callback runs on a rejection too.
RejectedIntoHandler(error) == <<Rejection(error), Callback(Undefined)>>

\* then(handler) with no rejection handler: on a rejection nothing of the
\* helper runs and the promise returned rejects with the same error.
Rejected(error) == <<Rejection(error)>>

\* ------------------------------------------------------------------ state

\* The set a helper paginates: an expression, opaque here.
TheSet == [match |-> "index"]

\* The params objects a caller constructs the base helper with.
ParamChoices ==
    [size : {SizeParam},
     before : {Undefined, CallerCursor("before")},
     after : {Undefined, CallerCursor("after")}]

Events(trace, ev) == SelectSeq(trace, LAMBDA e : e.ev = ev)
CountEvents(trace, ev) == Len(Events(trace, ev))

\* The request of a call that client.query has not answered yet.
Outstanding(call) == Events(call.trace, "request")[CountEvents(call.trace, "request")]

\* The pages the server may answer request n with: a cursor is reported, or
\* not, in each direction.
Pages(n) ==
    { [data |-> PageData(n),
       before |-> IF b THEN ServerCursor("before", n) ELSE Undefined,
       after |-> IF a THEN ServerCursor("after", n) ELSE Undefined]
      : a \in BOOLEAN, b \in BOOLEAN }

IsReverse(op) == op \in {"previousPage", "eachReverse"}
IsTraversal(op) == op \in {"each", "eachReverse"}

Array(h) == arrays[helpers[h].faunaFunctions]

\* The before and after fields of a helper.
Held(h) == [before |-> helpers[h].before, after |-> helpers[h].after]

NoCall == [state |-> "none"]

\* No call of the query constructors was made yet.
NoOutcome == [fn |-> "none"]

\* The requests client.query has not answered yet.
Unanswered == {Outstanding(calls[c]).n : c \in 1..Len(calls)}

\* A call: the method, the receiver, the promise's state and value, what the
\* call did so far; held is history, the receiver's cursors when the call was
\* made and, for a settled call, when its last answer arrived; unanswered is
\* history as well, the requests that were awaiting their answer when the
\* call was made.
NewCall(op, h, cursor) ==
    [op |-> op, self |-> h, state |-> "pending", value |-> Undefined,
     made |-> Held(h), held |-> Held(h), unanswered |-> Unanswered,
     trace |-> <<Request(issued + 1,
                   RetrieveNextPage(helpers[h], Array(h), cursor, IsReverse(op)))>>]

Remove(seq, i) == SubSeq(seq, 1, i - 1) \o SubSeq(seq, i + 1, Len(seq))

\* The operations performed so far: derivations and page requests.
OpsDone == (Len(helpers) - 1) + issued

Init ==
    /\ given \in ParamChoices
    /\ helpers = <<Constructor(TheSet, given, 1)>>
    /\ arrays = << <<>> >>
    /\ lineage = << <<>> >>
    /\ calls = <<>>
    /\ done = NoCall
    /\ issued = 0
    /\ subject = Undefined
    /\ outcome = NoOutcome
    /\ ClientUnused

\* ------------------------------------------------------------------ actions

\* rv = this._clone(); rv._faunaFunctions.push(f); return rv
Derive(h, f) ==
    /\ OpsDone < MaxOps
    /\ LET rv == Clone(helpers[h]) IN
       /\ helpers' = Append(helpers, rv)
       /\ arrays' = [arrays EXCEPT ![rv.faunaFunctions] = Append(@, f)]
    /\ lineage' = Append(lineage, Append(lineage[h], f))
    /\ UNCHANGED <<calls, done, issued, given, subject, outcome, cvars>>

Map(h, lambda) == Derive(h, MapFunction(lambda))

Filter(h, lambda) == Derive(h, FilterFunction(lambda))

StartCall(op, h, cursor) ==
    /\ OpsDone < MaxOps
    /\ calls' = Append(calls, NewCall(op, h, cursor))
    /\ issued' = issued + 1
    /\ UNCHANGED <<helpers, arrays, lineage, done, given, subject, outcome, cvars>>

NextPage(h) == StartCall("nextPage", h, helpers[h].after)

PreviousPage(h) == StartCall("previousPage", h, helpers[h].before)

Each(h) == StartCall("each", h, helpers[h].after)

EachReverse(h) == StartCall("eachReverse", h, helpers[h].before)

Settle(c, state, value, trace) ==
    /\ done' = [calls[c] EXCEPT !.state = state, !.value = value, !.trace = trace,
                                !.held = Held(calls[c].self)]
    /\ calls' = Remove(calls, c)

\* A variant of the handler of nextPage/previousPage that takes the page's
\* cursors only when no request made earlier is still unanswered.
PageArrivesInOrder(c, page) ==
    /\ ~IsTraversal(calls[c].op)
    /\ LET h == calls[c].self
           inOrder == \A n \in Unanswered : n >= Outstanding(calls[c]).n
           r == IF inOrder THEN AdjustCursors(helpers[h], page) ELSE helpers[h]
           trace == Append(calls[c].trace, Response(page))
       IN IF r = TypeError
          THEN /\ Settle(c, "rejected", TypeError, trace)
               /\ UNCHANGED helpers
          ELSE /\ Settle(c, "resolved", page.data, trace)
               /\ helpers' = [helpers EXCEPT ![h] = r]
    /\ UNCHANGED <<arrays, lineage, issued, given, subject, outcome, cvars>>

\* client.query resolves the request of a nextPage/previousPage call with a
\* page: the then-handler _adjustCursors runs.
PageArrives(c, page) ==
    /\ ~IsTraversal(calls[c].op)
    /\ LET h == calls[c].self
           r == AdjustCursors(helpers[h], page)
           trace == Append(calls[c].trace, Response(page))
       IN IF r = TypeError
          THEN /\ Settle(c, "rejected", TypeError, trace)
               /\ UNCHANGED helpers
          ELSE /\ Settle(c, "resolved", page.data, trace)
               /\ helpers' = [helpers EXCEPT ![h] = r]
    /\ UNCHANGED <<arrays, lineage, issued, given, subject, outcome, cvars>>

\* A variant of the traversal's handler that moves the helper's cursors to the
\* page's, as the handler of nextPage/previousPage does.
TraversalPageArrivesAdjusting(c, page) ==
    /\ IsTraversal(calls[c].op)
    /\ LET h == calls[c].self
           reverse == IsReverse(calls[c].op)
           ran == ConsumePages(helpers[h], Array(h), page, reverse, issued + 1)
           trace == Append(calls[c].trace, Response(page)) \o ran
       IN /\ IF CountEvents(ran, "request") > 0
             THEN /\ OpsDone < MaxOps
                  /\ calls' = [calls EXCEPT ![c].trace = trace]
                  /\ issued' = issued + CountEvents(ran, "request")
                  /\ UNCHANGED done
             ELSE /\ Settle(c, "resolved", Undefined, trace)
                  /\ UNCHANGED issued
          /\ helpers' = [helpers EXCEPT ![h] = [@ EXCEPT !.after = page.after,
                                                         !.before = page.before]]
    /\ UNCHANGED <<arrays, lineage, given, subject, outcome, cvars>>

\* client.query resolves the request of an each/eachReverse call with a page:
\* the handler _consumePages returned runs: the callback, then either the next
\* request or the end of the traversal.
TraversalPageArrives(c, page) ==
    /\ IsTraversal(calls[c].op)
    /\ LET h == calls[c].self
           reverse == IsReverse(calls[c].op)
           ran == ConsumePages(helpers[h], Array(h), page, reverse, issued + 1)
           trace == Append(calls[c].trace, Response(page)) \o ran
       IN IF CountEvents(ran, "request") > 0
          THEN /\ OpsDone < MaxOps
               /\ calls' = [calls EXCEPT ![c].trace = trace]
               /\ issued' = issued + CountEvents(ran, "request")
               /\ UNCHANGED done
          ELSE /\ Settle(c, "resolved", Undefined, trace)
               /\ UNCHANGED issued
    /\ UNCHANGED <<helpers, arrays, lineage, given, subject, outcome, cvars>>

\* client.query rejects the request: no handler of the helper runs, the call's
\* promise rejects with the same error.
QueryRejects(c) ==
    /\ Settle(c, "rejected", TransportError, calls[c].trace \o Rejected(TransportError))
    /\ UNCHANGED <<helpers, arrays, lineage, issued, given, subject, outcome, cvars>>

\* client.query answers the outstanding request of a call.
Answer(c) ==
    \/ \E page \in Pages(Outstanding(calls[c]).n) : PageArrives(c, page)
    \/ \E page \in Pages(Outstanding(calls[c]).n) : TraversalPageArrives(c, page)
    \/ QueryRejects(c)

\* client.query answers request n.
AnswerRequest(n) == \E c \in 1..Len(calls) : Outstanding(calls[c]).n = n /\ Answer(c)

Next ==
    \/ \E h \in 1..Len(helpers), lambda \in Lambdas : Map(h, lambda)
    \/ \E h \in 1..Len(helpers), lambda \in Lambdas : Filter(h, lambda)
    \/ \E h \in 1..Len(helpers) : NextPage(h)
    \/ \E h \in 1..Len(helpers) : PreviousPage(h)
    \/ \E h \in 1..Len(helpers) : Each(h)
    \/ \E h \in 1..Len(helpers) : EachReverse(h)
    \/ \E c \in 1..Len(calls) :
            \E page \in Pages(Outstanding(calls[c]).n) : PageArrives(c, page)
    \/ \E c \in 1..Len(calls) :
            \E page \in Pages(Outstanding(calls[c]).n) : TraversalPageArrives(c, page)
    \/ \E c \in 1..Len(calls) : QueryRejects(c)

Spec == Init /\ [][Next]_vars

\* Every request handed to client.query is eventually answered.
LiveSpec == Spec /\ \A n \in 1..MaxOps : WF_vars(AnswerRequest(n))

\* ==================================================================
\* The query constructors (query.ts), the expression node (Expr.ts) and the
\* value types (values.ts).
\*
\* Host values are records as above: a string [string |-> s], a number
\* [number |-> n], a boolean, a symbol, an array [array |-> <<...>>], a plain
\* object [entries |-> <<[key |-> k, value |-> v], ...>>] with its keys in
\* insertion order, a function, a byte buffer, a Date, and the instances of
\* Expr and of the Value classes [class |-> C, raw |-> r, ...].  A thrown
\* error is a record [error |-> name, ...] in the place of the result.
\* ------------------------------------------------------------------ host values

Str(s) == [string |-> s]
Num(n) == [number |-> n]
Bool(b) == [boolean |-> b]
Symbol(description) == [symbol |-> description]
List(elems) == [array |-> elems]
PlainObject(entries) == [entries |-> entries]
Entry(k, v) == [key |-> k, value |-> v]

\* function(p1, ..., pk) { ... }: the declared parameter names, and what the
\* body returns: its first argument, or the array of its arguments.
Callable(parameters, returns) == [function |-> parameters, returns |-> returns]

Uint8Array(bytes) == [uint8array |-> bytes]
ArrayBuffer(bytes) == [arraybuffer |-> bytes]

\* A Date of the host, by the two parts of its toISOString().
HostDate(day, time) == [date |-> day, time |-> time]

\* new Date(NaN): a Date that holds no time.
InvalidDate == [date |-> "Invalid Date", time |-> ""]

IsString(v) == "string" \in DOMAIN v
IsNumber(v) == "number" \in DOMAIN v
IsBoolean(v) == "boolean" \in DOMAIN v
IsSymbol(v) == "symbol" \in DOMAIN v
IsArray(v) == "array" \in DOMAIN v
IsFunction(v) == "function" \in DOMAIN v
IsUint8Array(v) == "uint8array" \in DOMAIN v
IsArrayBuffer(v) == "arraybuffer" \in DOMAIN v
IsDate(v) == "date" \in DOMAIN v
IsPlainObject(v) == "entries" \in DOMAIN v

\* obj instanceof Expr: Expr itself and every Value class, which extend it.
InstanceOfExpr(v) == "class" \in DOMAIN v

\* obj instanceof Value
InstanceOfValue(v) == InstanceOfExpr(v) /\ v.class # "Expr"

\* A result that is a thrown error.
IsError(v) == "error" \in DOMAIN v

\* The first error among the results of a sequence of evaluations, Undefined
\* when none threw.
FirstError(results) ==
    IF \E i \in 1..Len(results) : IsError(results[i])
    THEN results[CHOOSE i \in 1..Len(results) :
                    /\ IsError(results[i])
                    /\ \A j \in 1..(i - 1) : ~IsError(results[j])]
    ELSE Undefined

\* !v
Falsy(v) ==
    \/ v = Undefined
    \/ v = Null
    \/ v = Str("")
    \/ v = Num(0)
    \/ v = Bool(FALSE)

\* Object.keys(obj) of a plain object, and obj[key].
ObjectKeys(obj) == [i \in 1..Len(obj.entries) |-> obj.entries[i].key]

HasKey(obj, key) == \E i \in 1..Len(obj.entries) : obj.entries[i].key = key

GetKey(obj, key) ==
    IF HasKey(obj, key)
    THEN obj.entries[CHOOSE i \in 1..Len(obj.entries) : obj.entries[i].key = key].value
    ELSE Undefined

\* ------------------------------------------------------------------ strings

Lowercase == "abcdefghijklmnopqrstuvwxyz"
Uppercase == "ABCDEFGHIJKLMNOPQRSTUVWXYZ"
Digits == "0123456789"

\* str.charAt(i): the empty string outside the string.
CharAt(s, i) == IF i < 0 \/ i >= Len(s) THEN "" ELSE SubSeq(s, i + 1, i + 1)

\* str.slice(from)
Slice(s, from) == IF from >= Len(s) THEN "" ELSE SubSeq(s, from + 1, Len(s))

\* str.toUpperCase() of one character.
ToUpperCase(c) ==
    IF \E i \in 0..25 : CharAt(Lowercase, i) = c
    THEN CharAt(Uppercase, CHOOSE i \in 0..25 : CharAt(Lowercase, i) = c)
    ELSE c

\* str.split(sep) for a separator of one character.
RECURSIVE Split(_, _)
Split(s, sep) ==
    IF \E i \in 0..(Len(s) - 1) : CharAt(s, i) = sep
    THEN LET i == CHOOSE i \in 0..(Len(s) - 1) :
                    /\ CharAt(s, i) = sep
                    /\ \A j \in 0..(i - 1) : CharAt(s, j) # sep
         IN <<IF i = 0 THEN "" ELSE SubSeq(s, 1, i)>> \o Split(Slice(s, i + 1), sep)
    ELSE <<s>>

\* array.join(sep) of an array of strings.
RECURSIVE Join(_, _)
Join(strings, sep) ==
    IF Len(strings) = 0 THEN ""
    ELSE IF Len(strings) = 1 THEN strings[1]
    ELSE strings[1] \o sep \o Join(Tail(strings), sep)

\* number.toString()
RECURSIVE NumberToString(_)
NumberToString(n) ==
    IF n < 10 THEN CharAt(Digits, n)
    ELSE NumberToString(n \div 10) \o CharAt(Digits, n % 10)

\* ------------------------------------------------------------------ errors.ts

InvalidValue == [error |-> "InvalidValue"]

\* new InvalidArity(min, max, actual): min and max as they were passed, a
\* number or null.
InvalidArity(min, max, actual) ==
    [error |-> "InvalidArity", min |-> min, max |-> max, actual |-> Num(actual)]

\* ------------------------------------------------------------------ query.ts helpers

\* A variant of arity that checks the lower bound only.
ArityMinOnly(min, max, args) ==
    IF min # Null /\ Len(args) < min.number
    THEN InvalidArity(min, max, Len(args))
    ELSE Undefined

\* arity(min, max, args): throws, or returns nothing.
Arity(min, max, args) ==
    IF \/ (min # Null /\ Len(args) < min.number)
       \/ (max # Null /\ Len(args) > max.number)
    THEN InvalidArity(min, max, Len(args))
    ELSE Undefined

ArityExact(n, args) == Arity(Num(n), Num(n), args)
ArityMax(n, args) == Arity(Null, Num(n), args)
ArityMin(n, args) == Arity(Num(n), Null, args)
ArityBetween(min, max, args) == Arity(Num(min), Num(max), args)

\* arguments[i - 1]: undefined past the arguments given.
Arg(args, i) == IF i <= Len(args) THEN args[i] ELSE Undefined

\* varargs(values): a single value is not put in an array.
Varargs(values) == IF Len(values) = 1 THEN values[1] ELSE List(values)

\* argsToArray(args)
ArgsToArray(args) == List(args)

\* An object literal { k1: e1, ..., kn: en }: the first of the value
\* expressions that throws ends the evaluation.
ObjectLiteral(entries) ==
    LET thrown == FirstError([i \in 1..Len(entries) |-> entries[i].value])
    IN IF thrown # Undefined THEN thrown ELSE PlainObject(entries)

\* new Expr(raw)
NewExpr(raw) == IF IsError(raw) THEN raw ELSE [class |-> "Expr", raw |-> raw]

\* What a call of a callable returns.
CallFunction(func, args) ==
    IF func.returns = "first" THEN Arg(args, 1) ELSE List(args)

RECURSIVE Wrap(_)
RECURSIVE WrapValues(_)

\* Var(varName)
Var(args) ==
    LET thrown == ArityExact(1, args)
    IN IF IsError(thrown) THEN thrown
       ELSE NewExpr(ObjectLiteral(<<Entry("var", Wrap(args[1]))>>))

\* _lambdaExpr(var_name, expr)
LambdaExpr(var_name, expr) ==
    NewExpr(ObjectLiteral(<<Entry("lambda", Wrap(var_name)), Entry("expr", Wrap(expr))>>))

\* A variant of _lambdaFunc that binds the parameters in reverse order.
LambdaFuncReversed(func) ==
    LET params == func.function
        names == [i \in 1..Len(params) |-> Str(params[Len(params) + 1 - i])]
    IN IF Len(params) = 0 THEN InvalidValue
       ELSE IF Len(params) = 1
       THEN LambdaExpr(names[1], CallFunction(func, <<Var(<<names[1]>>)>>))
       ELSE LambdaExpr(List(names),
                       CallFunction(func, [i \in 1..Len(params) |-> Var(<<names[i]>>)]))

\* _lambdaFunc(func): the parameter names are those the function declares.
LambdaFunc(func) ==
    LET params == func.function
        names == [i \in 1..Len(params) |-> Str(params[i])]
    IN IF Len(params) = 0 THEN InvalidValue
       ELSE IF Len(params) = 1
       THEN LambdaExpr(names[1], CallFunction(func, <<Var(<<names[1]>>)>>))
       ELSE LambdaExpr(List(names),
                       CallFunction(func, [i \in 1..Len(params) |-> Var(<<names[i]>>)]))

\* Lambda(...)
Lambda(args) ==
    LET thrown == ArityBetween(1, 2, args)
    IN IF IsError(thrown) THEN thrown
       ELSE IF Len(args) = 1
       THEN IF IsFunction(args[1]) THEN LambdaFunc(args[1])
            ELSE IF InstanceOfExpr(args[1]) THEN args[1]
            ELSE InvalidValue
       ELSE LambdaExpr(args[1], args[2])

\* ------------------------------------------------------------------ base64-js

Base64Code == "ABCDEFGHIJKLMNOPQRSTUVWXYZabcdefghijklmnopqrstuvwxyz0123456789+/"

\* The sextet a character stands for; a character outside the alphabet reads
\* as 0.
RevLookup(c) ==
    IF \E n \in 0..63 : CharAt(Base64Code, n) = c
    THEN CHOOSE n \in 0..63 : CharAt(Base64Code, n) = c
    ELSE 0

\* base64.fromByteArray(uint8): three bytes to four characters, the rest
\* padded with '='.
RECURSIVE FromByteArray(_)
FromByteArray(uint8) ==
    IF Len(uint8) = 0 THEN ""
    ELSE IF Len(uint8) = 1
    THEN CharAt(Base64Code, uint8[1] \div 4)
            \o CharAt(Base64Code, (uint8[1] % 4) * 16) \o "=="
    ELSE IF Len(uint8) = 2
    THEN CharAt(Base64Code, uint8[1] \div 4)
            \o CharAt(Base64Code, (uint8[1] % 4) * 16 + uint8[2] \div 16)
            \o CharAt(Base64Code, (uint8[2] % 16) * 4) \o "="
    ELSE CharAt(Base64Code, uint8[1] \div 4)
            \o CharAt(Base64Code, (uint8[1] % 4) * 16 + uint8[2] \div 16)
            \o CharAt(Base64Code, (uint8[2] % 16) * 4 + uint8[3] \div 64)
            \o CharAt(Base64Code, uint8[3] % 64)
            \o FromByteArray(SubSeq(uint8, 4, Len(uint8)))

\* The bytes of a base64 text whose length is a multiple of 4.
RECURSIVE DecodeChunks(_)
DecodeChunks(b64) ==
    IF Len(b64) = 0 THEN <<>>
    ELSE LET n1 == RevLookup(CharAt(b64, 0))
             n2 == RevLookup(CharAt(b64, 1))
             n3 == RevLookup(CharAt(b64, 2))
             n4 == RevLookup(CharAt(b64, 3))
         IN IF CharAt(b64, 2) = "="
            THEN <<n1 * 4 + n2 \div 16>>
            ELSE IF CharAt(b64, 3) = "="
            THEN <<n1 * 4 + n2 \div 16, (n2 % 16) * 16 + n3 \div 4>>
            ELSE <<n1 * 4 + n2 \div 16, (n2 % 16) * 16 + n3 \div 4, (n3 % 4) * 64 + n4>>
                    \o DecodeChunks(Slice(b64, 4))

\* base64.toByteArray(b64)
ToByteArray(b64) ==
    IF Len(b64) % 4 # 0 THEN [error |-> "Error"]
    ELSE Uint8Array(DecodeChunks(b64))

\* ------------------------------------------------------------------ values.ts

\* date.toISOString()
ToISOString(date) ==
    IF date = InvalidDate THEN RangeError ELSE Str(date.date \o date.time)

\* other instanceof Ref
IsRef(v) == InstanceOfValue(v) /\ v.class = "Ref"

RECURSIVE RefEquals(_, _)

\* A variant of the Ref constructor that does not check the id.
NewRefUnchecked(id, clazz, database) ==
    [class |-> "Ref", raw |-> PlainObject(<<>>),
     value |-> PlainObject(<<Entry("id", id), Entry("class", clazz),
                             Entry("database", database)>>)]

\* new Ref(id, clazz, database)
NewRef(id, clazz, database) ==
    IF Falsy(id) THEN InvalidValue
    ELSE [class |-> "Ref", raw |-> PlainObject(<<>>),
          value |-> PlainObject(<<Entry("id", id), Entry("class", clazz),
                                  Entry("database", database)>>)]

\* new SetRef(value)
NewSetRef(value) == [class |-> "SetRef", raw |-> value, value |-> value]

\* A variant of the FaunaTime constructor that takes a string of any zone.
NewFaunaTimeAnyZone(value) ==
    IF IsDate(value)
    THEN IF IsError(ToISOString(value)) THEN ToISOString(value)
         ELSE [class |-> "FaunaTime", raw |-> ToISOString(value),
               value |-> ToISOString(value)]
    ELSE IF ~IsString(value) THEN TypeError
    ELSE [class |-> "FaunaTime", raw |-> value, value |-> value]

\* new FaunaTime(value)
NewFaunaTime(value) ==
    IF IsDate(value)
    THEN IF IsError(ToISOString(value)) THEN ToISOString(value)
         ELSE [class |-> "FaunaTime", raw |-> ToISOString(value),
               value |-> ToISOString(value)]
    ELSE IF ~IsString(value) THEN TypeError
    ELSE IF CharAt(value.string, Len(value.string) - 1) # "Z" THEN InvalidValue
    ELSE [class |-> "FaunaTime", raw |-> value, value |-> value]

\* new FaunaDate(value)
NewFaunaDate(value) ==
    IF IsDate(value)
    THEN IF IsError(ToISOString(value)) THEN ToISOString(value)
         ELSE [class |-> "FaunaDate",
               raw |-> Str(SubSeq(ToISOString(value).string, 1, 10)),
               value |-> Str(SubSeq(ToISOString(value).string, 1, 10))]
    ELSE [class |-> "FaunaDate", raw |-> value, value |-> value]

\* A variant of the Bytes constructor that keeps a value of any other type
\* as it is.
NewBytesOfAny(value) ==
    IF IsArrayBuffer(value)
    THEN [class |-> "Bytes", raw |-> Uint8Array(value.arraybuffer),
          value |-> Uint8Array(value.arraybuffer)]
    ELSE IF IsString(value)
    THEN LET uint8 == ToByteArray(value.string)
         IN IF IsError(uint8) THEN uint8
            ELSE [class |-> "Bytes", raw |-> uint8, value |-> uint8]
    ELSE [class |-> "Bytes", raw |-> value, value |-> value]

\* new Bytes(value)
NewBytes(value) ==
    IF IsArrayBuffer(value)
    THEN [class |-> "Bytes", raw |-> Uint8Array(value.arraybuffer),
          value |-> Uint8Array(value.arraybuffer)]
    ELSE IF IsString(value)
    THEN LET uint8 == ToByteArray(value.string)
         IN IF IsError(uint8) THEN uint8
            ELSE [class |-> "Bytes", raw |-> uint8, value |-> uint8]
    ELSE IF IsUint8Array(value)
    THEN [class |-> "Bytes", raw |-> value, value |-> value]
    ELSE InvalidValue

\* new Query(value)
NewQuery(value) == [class |-> "Query", raw |-> value, value |-> value]

\* this.equals(other) of a Ref: true or false, or the TypeError thrown where
\* equals is read off a class or database that is undefined.
RefEquals(this, other) ==
    IF ~IsRef(other) THEN Bool(FALSE)
    ELSE IF GetKey(this.value, "id") # GetKey(other.value, "id") THEN Bool(FALSE)
    ELSE LET SameAt(key) ==
                 IF GetKey(this.value, key) = Undefined /\ GetKey(other.value, key) = Undefined
                 THEN Bool(TRUE)
                 ELSE IF GetKey(this.value, key) = Undefined THEN TypeError
                 ELSE RefEquals(GetKey(this.value, key), GetKey(other.value, key))
         IN IF SameAt("class") # Bool(TRUE) THEN SameAt("class")
            ELSE SameAt("database")

\* ------------------------------------------------------------------ wrap

\* The own enumerable properties of a value, in the order Object.keys lists
\* them.
OwnEntries(v) ==
    IF IsPlainObject(v) THEN v.entries
    ELSE IF IsArray(v)
    THEN [i \in 1..Len(v.array) |-> Entry(NumberToString(i - 1), v.array[i])]
    ELSE IF IsUint8Array(v)
    THEN [i \in 1..Len(v.uint8array) |-> Entry(NumberToString(i - 1), Num(v.uint8array[i]))]
    ELSE IF IsString(v)
    THEN [i \in 1..Len(v.string) |-> Entry(NumberToString(i - 1), Str(CharAt(v.string, i - 1)))]
    ELSE IF InstanceOfValue(v) THEN <<Entry("raw", v.raw), Entry("value", v.value)>>
    ELSE IF InstanceOfExpr(v) THEN <<Entry("raw", v.raw)>>
    ELSE <<>>

\* wrap, the branch of the plain objects: new Expr({ object: wrapValues(obj) })
WrapObject(obj) == NewExpr(ObjectLiteral(<<Entry("object", WrapValues(obj))>>))

\* wrap, the branch of the arrays: new Expr(obj.map(wrap))
WrapArray(obj) ==
    LET elems == [i \in 1..Len(obj.array) |-> Wrap(obj.array[i])]
    IN IF FirstError(elems) # Undefined THEN FirstError(elems)
       ELSE NewExpr(List(elems))

\* A variant of wrap that makes a new node of an Expr instance instead of
\* returning it.
WrapAnew(obj) ==
    IF obj = Null THEN Null
    ELSE IF InstanceOfExpr(obj) THEN NewExpr(obj)
    ELSE IF IsSymbol(obj) THEN Str(obj.symbol)
    ELSE IF IsFunction(obj) THEN Lambda(<<obj>>)
    ELSE IF IsArray(obj) THEN WrapArray(obj)
    ELSE IF IsUint8Array(obj) \/ IsArrayBuffer(obj) THEN NewBytes(obj)
    ELSE IF IsPlainObject(obj) \/ IsDate(obj) THEN WrapObject(obj)
    ELSE obj

\* wrap(obj)
Wrap(obj) ==
    IF obj = Null THEN Null
    ELSE IF InstanceOfExpr(obj) THEN obj
    ELSE IF IsSymbol(obj) THEN Str(obj.symbol)
    ELSE IF IsFunction(obj) THEN Lambda(<<obj>>)
    ELSE IF IsArray(obj) THEN WrapArray(obj)
    ELSE IF IsUint8Array(obj) \/ IsArrayBuffer(obj) THEN NewBytes(obj)
    ELSE IF IsPlainObject(obj) \/ IsDate(obj) THEN WrapObject(obj)
    ELSE obj

\* wrapValues(obj)
WrapValues(obj) ==
    IF obj # Null
    THEN IF obj = Undefined THEN TypeError
         ELSE LET entries == OwnEntries(obj)
                  wrapped == [i \in 1..Len(entries) |->
                                 Entry(entries[i].key, Wrap(entries[i].value))]
              IN ObjectLiteral(wrapped)
    ELSE Null

\* ------------------------------------------------------------------ query.ts

\* objectFunction(fields), exported as Object
ObjectFunction(args) ==
    LET thrown == ArityExact(1, args)
    IN IF IsError(thrown) THEN thrown
       ELSE NewExpr(ObjectLiteral(<<Entry("object", WrapValues(args[1]))>>))

\* If(condition, then, _else)
If(args) ==
    LET thrown == ArityExact(3, args)
    IN IF IsError(thrown) THEN thrown
       ELSE NewExpr(ObjectLiteral(<<Entry("if", Wrap(args[1])),
                                    Entry("then", Wrap(args[2])),
                                    Entry("else", Wrap(args[3]))>>))

\* Do(...args)
Do(args) ==
    LET thrown == ArityMin(1, args)
    IN IF IsError(thrown) THEN thrown
       ELSE NewExpr(ObjectLiteral(<<Entry("do", Wrap(ArgsToArray(args)))>>))

\* Call(ref, ...args): the arguments after the ref are not wrapped.
Call(args) ==
    LET thrown == ArityMin(1, args)
    IN IF IsError(thrown) THEN thrown
       ELSE NewExpr(ObjectLiteral(<<Entry("call", Wrap(args[1])),
                                    Entry("arguments", Varargs(Tail(args)))>>))

\* IsNonEmpty(collection)
IsNonEmpty(args) ==
    LET thrown == ArityExact(1, args)
    IN IF IsError(thrown) THEN thrown
       ELSE NewExpr(ObjectLiteral(<<Entry("is_nonempty", Wrap(args[1]))>>))

\* Identity()
Identity(args) ==
    LET thrown == ArityExact(0, args)
    IN IF IsError(thrown) THEN thrown
       ELSE NewExpr(ObjectLiteral(<<Entry("identity", Null)>>))

\* Classes(scope)
Classes(args) ==
    LET thrown == ArityMax(1, args)
        scope == IF Falsy(Arg(args, 1)) THEN Null ELSE Arg(args, 1)
    IN IF IsError(thrown) THEN thrown
       ELSE NewExpr(ObjectLiteral(<<Entry("classes", Wrap(scope))>>))

\* Select(path, from, _default)
Select(args) ==
    LET thrown == ArityBetween(2, 3, args)
    IN IF IsError(thrown) THEN thrown
       ELSE IF Arg(args, 3) # Undefined
       THEN NewExpr(ObjectLiteral(<<Entry("select", Wrap(args[1])),
                                    Entry("from", Wrap(args[2])),
                                    Entry("default", Wrap(args[3]))>>))
       ELSE NewExpr(ObjectLiteral(<<Entry("select", Wrap(args[1])),
                                    Entry("from", Wrap(args[2]))>>))

\* The constructors of the form
\*   function F(...args) { arity.min(1, arguments);
\*                         return new Expr({ tag: wrap(varargs(arguments)) }) }
WrappedVarargs(tag, args) ==
    LET thrown == ArityMin(1, args)
    IN IF IsError(thrown) THEN thrown
       ELSE NewExpr(ObjectLiteral(<<Entry(tag, Wrap(Varargs(args)))>>))

Union(args) == WrappedVarargs("union", args)
Intersection(args) == WrappedVarargs("intersection", args)
Difference(args) == WrappedVarargs("difference", args)

\* Equals(...args): the arguments are not wrapped.
Equals(args) ==
    LET thrown == ArityMin(1, args)
    IN IF IsError(thrown) THEN thrown
       ELSE NewExpr(ObjectLiteral(<<Entry("equals", Varargs(args))>>))

Add(args) == WrappedVarargs("add", args)
Multiply(args) == WrappedVarargs("multiply", args)
Subtract(args) == WrappedVarargs("subtract", args)
Divide(args) == WrappedVarargs("divide", args)
Modulo(args) == WrappedVarargs("modulo", args)
LT(args) == WrappedVarargs("lt", args)
LTE(args) == WrappedVarargs("lte", args)
GT(args) == WrappedVarargs("gt", args)
GTE(args) == WrappedVarargs("gte", args)
And(args) == WrappedVarargs("and", args)
Or(args) == WrappedVarargs("or", args)

\* The constructors by their exported names.
Constructors ==
    {"Object", "If", "Do", "Lambda", "Call", "Var", "IsNonEmpty", "Identity",
     "Classes", "Select", "Union", "Intersection", "Difference", "Equals",
     "Add", "Multiply", "Subtract", "Divide", "Modulo", "LT", "LTE", "GT",
     "GTE", "And", "Or"}

\* query[name](...args)
Construct(name, args) ==
    CASE name = "Object" -> ObjectFunction(args)
      [] name = "If" -> If(args)
      [] name = "Do" -> Do(args)
      [] name = "Lambda" -> Lambda(args)
      [] name = "Call" -> Call(args)
      [] name = "Var" -> Var(args)
      [] name = "IsNonEmpty" -> IsNonEmpty(args)
      [] name = "Identity" -> Identity(args)
      [] name = "Classes" -> Classes(args)
      [] name = "Select" -> Select(args)
      [] name = "Union" -> Union(args)
      [] name = "Intersection" -> Intersection(args)
      [] name = "Difference" -> Difference(args)
      [] name = "Equals" -> Equals(args)
      [] name = "Add" -> Add(args)
      [] name = "Multiply" -> Multiply(args)
      [] name = "Subtract" -> Subtract(args)
      [] name = "Divide" -> Divide(args)
      [] name = "Modulo" -> Modulo(args)
      [] name = "LT" -> LT(args)
      [] name = "LTE" -> LTE(args)
      [] name = "GT" -> GT(args)
      [] name = "GTE" -> GTE(args)
      [] name = "And" -> And(args)
      [] name = "Or" -> Or(args)

\* ------------------------------------------------------------------ Expr.ts

VarArgsFunctions ==
    {"Do", "Call", "Union", "Intersection", "Difference", "Equals", "Add",
     "Multiply", "Subtract", "Divide", "Modulo", "LT", "LTE", "GT", "GTE",
     "And", "Or"}

\* if (fn in specialCases) fn = specialCases[fn]
SpecialCases(fn) ==
    CASE fn = "is_nonempty" -> "is_non_empty"
      [] fn = "lt" -> "LT"
      [] fn = "lte" -> "LTE"
      [] fn = "gt" -> "GT"
      [] fn = "gte" -> "GTE"
      [] OTHER -> fn

\* str.charAt(0).toUpperCase() + str.slice(1)
Capitalize(str) == ToUpperCase(CharAt(str, 0)) \o Slice(str, 1)

\* fn.split('_').map(capitalize).join('')
FunctionName(fn) ==
    LET parts == Split(SpecialCases(fn), "_")
    IN Join([i \in 1..Len(parts) |-> Capitalize(parts[i])], "")

\* The texts of a sequence of renderings.
Texts(rendered) == [i \in 1..Len(rendered) |-> rendered[i].string]

\* A variant of the array branch of toString that never drops the brackets.
RenderArrayBracketed(array, caller) == Str("[" \o array \o "]")

\* return varArgsFunctions.includes(caller) ? array : '[' + array + ']'
RenderArray(array, caller) ==
    IF \E name \in VarArgsFunctions : caller = Str(name)
    THEN Str(array)
    ELSE Str("[" \o array \o "]")

\* Expr.toString(expr, caller): a string, or the TypeError thrown.
RECURSIVE ExprToString(_, _)
ExprToString(e, caller) ==
    LET expr == IF InstanceOfExpr(e) THEN e.raw ELSE e
    IN IF IsString(expr) THEN Str("\"" \o expr.string \o "\"")
       ELSE IF IsSymbol(expr) THEN Str("Symbol(" \o expr.symbol \o ")")
       ELSE IF IsNumber(expr) THEN Str(NumberToString(expr.number))
       ELSE IF IsBoolean(expr) THEN Str(IF expr.boolean THEN "true" ELSE "false")
       ELSE IF expr = Undefined THEN Str("undefined")
       ELSE IF expr = Null THEN Str("null")
       ELSE IF IsArray(expr)
       THEN LET items == [i \in 1..Len(expr.array) |->
                             ExprToString(expr.array[i], Undefined)]
            IN IF FirstError(items) # Undefined THEN FirstError(items)
               ELSE RenderArray(Join(Texts(items), ", "), caller)
       ELSE LET entries == OwnEntries(expr)
            IN IF Len(entries) = 0 THEN TypeError
               ELSE IF entries[1].key = "object"
               THEN IF entries[1].value \in {Null, Undefined} THEN TypeError
                    ELSE LET fields == OwnEntries(entries[1].value)
                             values == [i \in 1..Len(fields) |->
                                           ExprToString(fields[i].value, Undefined)]
                         IN IF FirstError(values) # Undefined THEN FirstError(values)
                            ELSE Str("{" \o
                                     Join([i \in 1..Len(fields) |->
                                              fields[i].key \o ": " \o values[i].string],
                                          ", ")
                                     \o "}")
               ELSE LET fn == FunctionName(entries[1].key)
                        args == [i \in 1..Len(entries) |->
                                    ExprToString(entries[i].value, Str(fn))]
                    IN IF FirstError(args) # Undefined THEN FirstError(args)
                       ELSE Str(fn \o "(" \o Join(Texts(args), ", ") \o ")")

\* ------------------------------------------------------------------ toJSON

\* A variant of toJSON in which a FaunaDate answers under the tag of a
\* FaunaTime.
ToJSONDateAsTime(v) ==
    CASE v.class = "Ref" -> PlainObject(<<Entry("@ref", v.value)>>)
      [] v.class = "SetRef" -> PlainObject(<<Entry("@set", v.value)>>)
      [] v.class = "FaunaTime" -> PlainObject(<<Entry("@ts", v.value)>>)
      [] v.class = "FaunaDate" -> PlainObject(<<Entry("@ts", v.value)>>)
      [] v.class = "Bytes" ->
            PlainObject(<<Entry("@bytes", Str(FromByteArray(v.value.uint8array)))>>)
      [] v.class = "Query" -> PlainObject(<<Entry("@query", v.value)>>)
      [] OTHER -> v.raw

\* A variant of toJSON in which a SetRef answers with its bare value.
ToJSONUntaggedSet(v) ==
    CASE v.class = "Ref" -> PlainObject(<<Entry("@ref", v.value)>>)
      [] v.class = "SetRef" -> v.value
      [] v.class = "FaunaTime" -> PlainObject(<<Entry("@ts", v.value)>>)
      [] v.class = "FaunaDate" -> PlainObject(<<Entry("@date", v.value)>>)
      [] v.class = "Bytes" ->
            PlainObject(<<Entry("@bytes", Str(FromByteArray(v.value.uint8array)))>>)
      [] v.class = "Query" -> PlainObject(<<Entry("@query", v.value)>>)
      [] OTHER -> v.raw

\* v.toJSON(): the method of the instance's class.
ToJSON(v) ==
    CASE v.class = "Ref" -> PlainObject(<<Entry("@ref", v.value)>>)
      [] v.class = "SetRef" -> PlainObject(<<Entry("@set", v.value)>>)
      [] v.class = "FaunaTime" -> PlainObject(<<Entry("@ts", v.value)>>)
      [] v.class = "FaunaDate" -> PlainObject(<<Entry("@date", v.value)>>)
      [] v.class = "Bytes" ->
            PlainObject(<<Entry("@bytes", Str(FromByteArray(v.value.uint8array)))>>)
      [] v.class = "Query" -> PlainObject(<<Entry("@query", v.value)>>)
      [] OTHER -> v.raw

\* ------------------------------------------------------------------ the codec

\* What JSON.stringify leaves out of an object and writes as null in an array.
Omitted(v) == v = Undefined \/ IsFunction(v) \/ IsSymbol(v)

RemoveOmitted(entries) == SelectSeq(entries, LAMBDA e : ~Omitted(e.value))

\* The JSON value JSON.stringify writes for a property value: toJSON() is
\* called on a value that has the method, and the properties of what it
\* returns are written in turn.
RECURSIVE SerializeJSONProperty(_)
SerializeJSONProperty(v) ==
    LET value == IF InstanceOfExpr(v) THEN ToJSON(v)
                 ELSE IF IsDate(v) THEN (IF v = InvalidDate THEN Null ELSE ToISOString(v))
                 ELSE v
    IN IF value = Null \/ IsString(value) \/ IsNumber(value) \/ IsBoolean(value)
       THEN value
       ELSE IF Omitted(value) THEN Undefined
       ELSE IF IsArray(value)
       THEN List([i \in 1..Len(value.array) |->
                     IF Omitted(SerializeJSONProperty(value.array[i])) THEN Null
                     ELSE SerializeJSONProperty(value.array[i])])
       ELSE LET entries == OwnEntries(value)
                written == [i \in 1..Len(entries) |->
                               Entry(entries[i].key, SerializeJSONProperty(entries[i].value))]
            IN PlainObject(RemoveOmitted(written))

\* The text of a JSON value.
RECURSIVE JSONText(_)
JSONText(j) ==
    IF j = Null THEN "null"
    ELSE IF IsString(j) THEN "\"" \o j.string \o "\""
    ELSE IF IsNumber(j) THEN NumberToString(j.number)
    ELSE IF IsBoolean(j) THEN (IF j.boolean THEN "true" ELSE "false")
    ELSE IF IsArray(j)
    THEN "[" \o Join([i \in 1..Len(j.array) |-> JSONText(j.array[i])], ",") \o "]"
    ELSE "{" \o Join([i \in 1..Len(j.entries) |->
                         "\"" \o j.entries[i].key \o "\":" \o JSONText(j.entries[i].value)],
                     ",") \o "}"

\* json.toJSON(value): JSON.stringify(value); undefined when nothing is written.
JSONStringify(value) ==
    LET j == SerializeJSONProperty(value)
    IN IF j = Undefined THEN Undefined ELSE Str(JSONText(j))

DecodeError == [error |-> "DecodeError"]

WireTags == {"@ref", "@set", "@ts", "@date", "@bytes", "@query"}

\* The text of a "@date" field: YYYY-MM-DD.
IsDateText(v) ==
    /\ IsString(v)
    /\ Len(v.string) = 10
    /\ CharAt(v.string, 4) = "-"
    /\ CharAt(v.string, 7) = "-"

\* Decoding a parsed wire value: an object whose sole key is one of the six
\* tags becomes the Value instance, its fields decoded first; any other
\* object becomes a keyed mapping of decoded values, an array is decoded
\* element-wise, a scalar is unchanged.
RECURSIVE Decode(_)
Decode(j) ==
    IF IsArray(j)
    THEN LET elems == [i \in 1..Len(j.array) |-> Decode(j.array[i])]
         IN IF FirstError(elems) # Undefined THEN FirstError(elems) ELSE List(elems)
    ELSE IF ~IsPlainObject(j) THEN j
    ELSE IF Len(j.entries) = 1 /\ j.entries[1].key \in WireTags
    THEN LET tag == j.entries[1].key
             body == j.entries[1].value
         IN CASE tag = "@ref" ->
                   IF ~IsPlainObject(body) \/ ~HasKey(body, "id") THEN DecodeError
                   ELSE LET clazz == Decode(GetKey(body, "class"))
                            database == Decode(GetKey(body, "database"))
                        IN IF IsError(clazz) THEN clazz
                           ELSE IF IsError(database) THEN database
                           ELSE NewRef(GetKey(body, "id"), clazz, database)
              [] tag = "@set" ->
                   IF IsError(Decode(body)) THEN Decode(body) ELSE NewSetRef(Decode(body))
              [] tag = "@ts" ->
                   IF ~IsString(body) \/ IsError(NewFaunaTime(body)) THEN DecodeError
                   ELSE NewFaunaTime(body)
              [] tag = "@date" ->
                   IF ~IsDateText(body) THEN DecodeError ELSE NewFaunaDate(body)
              [] tag = "@bytes" ->
                   IF ~IsString(body) \/ IsError(NewBytes(body)) THEN DecodeError
                   ELSE NewBytes(body)
              [] tag = "@query" ->
                   IF IsError(Decode(body)) THEN Decode(body) ELSE NewQuery(Decode(body))
    ELSE LET values == [i \in 1..Len(j.entries) |->
                           Entry(j.entries[i].key, Decode(j.entries[i].value))]
         IN ObjectLiteral(values)

\* ------------------------------------------------------------------ inputs

NativeClasses == NewRef(Str("classes"), Undefined, Undefined)
NativeIndexes == NewRef(Str("indexes"), Undefined, Undefined)

\* new Ref('123', new Ref('frogs', values.Native.CLASSES))
FrogRef == NewRef(Str("123"), NewRef(Str("frogs"), NativeClasses, Undefined), Undefined)

\* new Ref('frogs_by_size', values.Native.INDEXES)
IndexRef == NewRef(Str("frogs_by_size"), NativeIndexes, Undefined)

\* The plain objects callers pass: empty, flat, nested, and with keys that
\* are function tags.
PlainObjects ==
    { PlainObject(<<>>),
      PlainObject(<<Entry("a", Num(1))>>),
      PlainObject(<<Entry("add", List(<<Num(1), Num(2)>>))>>),
      PlainObject(<<Entry("object", PlainObject(<<Entry("a", Num(1))>>))>>),
      PlainObject(<<Entry("data", PlainObject(<<Entry("var", PlainObject(<<>>))>>))>>),
      PlainObject(<<Entry("x", Bool(TRUE)), Entry("add", PlainObject(<<Entry("z", Str("str"))>>))>>),
      PlainObject(<<Entry("lambda", Str("x")),
                    Entry("expr", PlainObject(<<Entry("var", Str("x"))>>))>>),
      PlainObject(<<Entry("ref", FrogRef)>>) }

Scalars == {Null, Undefined, Num(1), Num(10), Str("a"), Str(""), Bool(FALSE), Symbol("foo")}

Arrays ==
    { List(<<>>),
      List(<<Num(1), Str("a")>>),
      List(<<Null, Undefined>>),
      List(<<List(<<Num(1), Num(2)>>), Num(3)>>),
      List(<<PlainObject(<<Entry("a", Num(1))>>), Symbol("foo")>>) }

Callables ==
    { Callable(<<>>, "first"),
      Callable(<<"x">>, "first"),
      Callable(<<"x", "y">>, "list"),
      Callable(<<"a", "b", "c">>, "list") }

Buffers ==
    { Uint8Array(<<1, 2, 3, 4>>), Uint8Array(<<>>), Uint8Array(<<255, 16>>),
      Uint8Array(<<0, 0, 0, 0>>), ArrayBuffer(<<0, 0, 0, 0>>), ArrayBuffer(<<1, 2, 3, 4>>) }

Dates == { HostDate("1970-01-01", "T00:00:00.000Z"), InvalidDate }

\* Expression nodes built by the constructors.
Exprs ==
    { Var(<<Str("x")>>),
      Add(<<Var(<<Str("y")>>), Num(1)>>),
      Lambda(<<List(<<Str("x"), Str("y")>>),
               Union(<<Var(<<Str("x")>>), Var(<<Str("y")>>)>>)>>) }

\* Instances of the Value classes: as the tests build them, and holding an
\* expression node.
Values ==
    { NativeClasses,
      FrogRef,
      NewRef(Str("cls"), NativeClasses, NewRef(Str("db"), NewRef(Str("databases"), Undefined, Undefined), Undefined)),
      NewSetRef(PlainObject(<<Entry("match", IndexRef), Entry("terms", FrogRef)>>)),
      NewSetRef(NewExpr(PlainObject(<<Entry("match", IndexRef)>>))),
      NewFaunaTime(Str("1970-01-01T00:00:00.123456789Z")),
      NewFaunaTime(HostDate("1970-01-01", "T00:00:00.000Z")),
      NewFaunaDate(Str("1970-01-01")),
      NewFaunaDate(HostDate("1970-01-01", "T00:00:00.000Z")),
      NewBytes(Str("AQIDBA==")),
      NewBytes(Uint8Array(<<1, 2, 3, 4>>)),
      NewBytes(ArrayBuffer(<<0, 0, 0, 0>>)),
      NewBytes(Uint8Array(<<255>>)),
      NewQuery(PlainObject(<<Entry("lambda", Str("x")),
                             Entry("expr", PlainObject(<<Entry("var", Str("x"))>>))>>)),
      NewQuery(Lambda(<<Str("x"), Var(<<Str("x")>>)>>)) }

HostValues ==
    PlainObjects \cup Scalars \cup Arrays \cup Callables \cup Buffers \cup Dates
        \cup Exprs \cup Values \cup {Str("1970-01-01T00:00:00.000+04:00"), Str("1970-01-01T00:00:00.123456789Z"),
               Str("1970-01-01T00:00:00z"), Str("AQIDBA=="), Str("AAAAAA==")}

\* The greatest number of arguments a constructor is called with.
MaxArgs == 4

\* The argument a caller passes next to the value under study.
Filler == Num(1)

Fillers(n) == [i \in 1..n |-> Filler]

\* The argument lists: none, the value first and fillers after it, the value
\* second.
ArgLists(v) ==
    {<<>>, <<Filler, v>>} \cup { <<v>> \o Fillers(n) : n \in 0..(MaxArgs - 1) }

\* A call made and what it returned or threw.
Outcome(fn, args, result) == [fn |-> fn, args |-> args, result |-> result]

ValueClasses == {"Ref", "SetRef", "FaunaTime", "FaunaDate", "Bytes", "Query"}

\* The values the caller holds: the one it started with and the one the
\* constructor call returned.
Targets ==
    {subject} \cup
    (IF outcome.fn \in (Constructors \cup ValueClasses \cup {"wrap"})
        /\ ~IsError(outcome.result)
     THEN {outcome.result} ELSE {})

\* The values wrap is called on: the caller's, and what wrap returned for it.
WrapTargets ==
    {subject} \cup
    (IF outcome.fn = "wrap" /\ ~IsError(outcome.result) THEN {outcome.result} ELSE {})

\* The Refs compared: with and without class and database, nested, alike
\* and differing in one place.
RefOperands ==
    { NativeClasses,
      NewRef(Str("frogs"), Undefined, Undefined),
      NewRef(Str("frogs"), NativeClasses, Undefined),
      NewRef(Str("frogs"), NativeIndexes, Undefined),
      NewRef(Str("frogs"), Undefined, NewRef(Str("db"), Undefined, Undefined)),
      NewRef(Str("frogs"), NativeClasses, NewRef(Str("db"), Undefined, Undefined)),
      NewRef(Str("123"), NewRef(Str("frogs"), Undefined, Undefined), Undefined),
      FrogRef }

\* ------------------------------------------------------------------ calls

\* The pagination helper's variables.
hvars == <<helpers, arrays, lineage, calls, done, issued, given, cvars>>

\* A caller holds one of the host values and calls the library on it.  What
\* a call returns depends on its arguments alone, so a run makes one
\* constructor call on the value and then inspects what it holds: it wraps,
\* renders, encodes and decodes.
QInit ==
    /\ subject \in HostValues
    /\ outcome = NoOutcome
    /\ given = [size |-> SizeParam, before |-> Undefined, after |-> Undefined]
    /\ helpers = <<Constructor(TheSet, given, 1)>>
    /\ arrays = << <<>> >>
    /\ lineage = << <<>> >>
    /\ calls = <<>>
    /\ done = NoCall
    /\ issued = 0
    /\ ClientUnused

\* wrap(target)
WrapCall(target) ==
    /\ outcome' = Outcome("wrap", <<target>>, Wrap(target))
    /\ UNCHANGED <<subject, hvars>>

\* query[name](...args)
ConstructCall(name, args) ==
    /\ outcome = NoOutcome
    /\ outcome' = Outcome(name, args, Construct(name, args))
    /\ UNCHANGED <<subject, hvars>>

\* new values.Ref(id, clazz, database)
NewRefCall(id, clazz, database) ==
    /\ outcome = NoOutcome
    /\ outcome' = Outcome("Ref", <<id, clazz, database>>, NewRef(id, clazz, database))
    /\ UNCHANGED <<subject, hvars>>

\* new values.SetRef(value)
NewSetRefCall(v) ==
    /\ outcome = NoOutcome
    /\ outcome' = Outcome("SetRef", <<v>>, NewSetRef(v))
    /\ UNCHANGED <<subject, hvars>>

\* new values.FaunaTime(value)
NewFaunaTimeCall(v) ==
    /\ outcome = NoOutcome
    /\ outcome' = Outcome("FaunaTime", <<v>>, NewFaunaTime(v))
    /\ UNCHANGED <<subject, hvars>>

\* new values.FaunaDate(value)
NewFaunaDateCall(v) ==
    /\ outcome = NoOutcome
    /\ outcome' = Outcome("FaunaDate", <<v>>, NewFaunaDate(v))
    /\ UNCHANGED <<subject, hvars>>

\* new values.Bytes(value)
NewBytesCall(v) ==
    /\ outcome = NoOutcome
    /\ outcome' = Outcome("Bytes", <<v>>, NewBytes(v))
    /\ UNCHANGED <<subject, hvars>>

\* new values.Query(value)
NewQueryCall(v) ==
    /\ outcome = NoOutcome
    /\ outcome' = Outcome("Query", <<v>>, NewQuery(v))
    /\ UNCHANGED <<subject, hvars>>

\* Expr.toString(target)
ToStringCall(target) ==
    /\ outcome' = Outcome("toString", <<target>>, ExprToString(target, Undefined))
    /\ UNCHANGED <<subject, hvars>>

\* json.toJSON(target): the text, the JSON value the text stands for, and
\* what the target's own toJSON method returned to JSON.stringify.
ToJSONCall(target) ==
    /\ outcome' = [fn |-> "toJSON", args |-> <<target>>,
                   result |-> JSONStringify(target),
                   json |-> SerializeJSONProperty(target),
                   returned |-> IF InstanceOfExpr(target) THEN ToJSON(target) ELSE Undefined]
    /\ UNCHANGED <<subject, hvars>>

\* json.parseJSON(text) on the text json.toJSON just returned for a value.
ParseJSONCall ==
    /\ outcome.fn = "toJSON"
    /\ outcome.result # Undefined
    /\ outcome' = [fn |-> "parseJSON", args |-> <<outcome.result>>,
                   from |-> outcome.args[1],
                   result |-> Decode(outcome.json)]
    /\ UNCHANGED <<subject, hvars>>

\* a.equals(b)
RefEqualsCall(a, b) ==
    /\ outcome' = Outcome("equals", <<a, b>>, RefEquals(a, b))
    /\ UNCHANGED <<subject, hvars>>

QNext ==
    \/ \E target \in WrapTargets : WrapCall(target)
    \/ \E name \in Constructors, args \in ArgLists(subject) : ConstructCall(name, args)
    \/ \E id \in {subject, Undefined, Null, Str("")},
          clazz \in {Undefined, subject}, database \in {Undefined, subject} :
            NewRefCall(id, clazz, database)
    \/ NewSetRefCall(subject)
    \/ NewFaunaTimeCall(subject)
    \/ NewFaunaDateCall(subject)
    \/ NewBytesCall(subject)
    \/ NewQueryCall(subject)
    \/ \E target \in Targets : ToStringCall(target)
    \/ \E target \in Targets : ToJSONCall(target)
    \/ ParseJSONCall
    \/ \E a \in RefOperands, b \in RefOperands \cup {subject} : RefEqualsCall(a, b)

QuerySpec == QInit /\ [][QNext]_vars


\* ------------------------------------------------------------------ claims

\* The calls made and still known: the pending ones and the one settled last.
KnownCalls ==
    {calls[c] : c \in 1..Len(calls)} \cup (IF done.state = "none" THEN {} ELSE {done})

Traversals == {call \in KnownCalls : call.op \in {"each", "eachReverse"}}

\* The Paginate node of a query and the Map/Filter nodes around it, innermost first.
RECURSIVE BaseQuery(_)
BaseQuery(q) == IF "collection" \in DOMAIN q THEN BaseQuery(q.collection) ELSE q

RECURSIVE Wrappers(_)
Wrappers(q) ==
    IF "map" \in DOMAIN q THEN Append(Wrappers(q.collection), [fn |-> "Map", lambda |-> q.map])
    ELSE IF "filter" \in DOMAIN q
         THEN Append(Wrappers(q.collection), [fn |-> "Filter", lambda |-> q.filter])
         ELSE <<>>

Requests(call) == Events(call.trace, "request")
Responses(call) == Events(call.trace, "response")
Callbacks(call) == Events(call.trace, "callback")

\* The page the last answered request of a call was answered with.
LastPage(call) == Responses(call)[Len(Responses(call))].page

IsServerCursor(v) == "cursor" \in DOMAIN v /\ v.request > 0

\* The cursor of a page in the direction of a traversal.
DirectionCursor(page, op) == IF op = "eachReverse" THEN page.before ELSE page.after

\* The cursor a request carries in the direction of a traversal.
SentCursor(q, op) ==
    IF op = "eachReverse" THEN BaseQuery(q).before ELSE BaseQuery(q).after

\* C1 as stated: after a successful nextPage() the held after cursor equals the
\* after field of that call's response, whether the response reports one or not.
C1_AfterIsNthResponse ==
    (done.state = "resolved" /\ done.op = "nextPage")
        => helpers[done.self].after = LastPage(done).after

\* C1 amended: after a successful nextPage() the held after cursor equals the
\* after field of its response when the response reports one, and is the
\* cursor held when the response arrived when it reports none: after n
\* successful calls it is the after field of the latest response that had one.
C1_AfterIsLastReported ==
    (done.state = "resolved" /\ done.op = "nextPage")
        => helpers[done.self].after =
              IF LastPage(done).after # Undefined THEN LastPage(done).after
              ELSE done.held.after

\* A second or later nextPage() resolved with a page that reports no after
\* cursor, and the helper still holds the cursor an earlier response reported.
C1_Witness ==
    /\ done.state = "resolved" /\ done.op = "nextPage"
    /\ LastPage(done).after = Undefined
    /\ IsServerCursor(helpers[done.self].after)

\* What C2 says of one traversal.
TraversalInOrder(call) ==
    LET reqs == Requests(call)
        resps == Responses(call)
        cbs == Callbacks(call)
    IN /\ Len(cbs) = Len(resps)
       /\ \A i \in 1..Len(resps) :
            /\ resps[i].page.data = PageData(reqs[i].n)
            /\ cbs[i].data = resps[i].page.data
       /\ \A i \in 1..Len(reqs), j \in 1..Len(reqs) : i < j => reqs[i].n < reqs[j].n
       /\ Len(reqs) = Len(cbs) + (IF call.state = "resolved" THEN 0 ELSE 1)
       /\ \A i \in 1..Len(resps) :
            /\ (DirectionCursor(resps[i].page, call.op) # Undefined) <=> (i < Len(reqs))
            /\ i < Len(reqs) =>
                 SentCursor(reqs[i + 1].q, call.op) = DirectionCursor(resps[i].page, call.op)

\* C2: each/eachReverse invoke the callback once per page fetched, with the
\* page's data, in the order fetched; a resolved traversal issued as many
\* requests as it made callback invocations; the traversal goes on exactly
\* while the page delivered reports a cursor in its direction.
C2_CallbackOncePerPage == \A call \in Traversals : TraversalInOrder(call)

\* An each() that resolved after two pages, as in the test 'paginates'.
C2_Witness ==
    /\ done.state = "resolved" /\ done.op = "each"
    /\ Len(Callbacks(done)) = 2
    /\ Len(Requests(done)) = 2

\* C3: in a traversal every request but the first comes right after the
\* callback invocation for the page before it, and the traversal never has
\* more than one request unanswered.
C3_RequestAfterCallback ==
    \A call \in Traversals :
        /\ \A k \in 2..Len(call.trace) :
              call.trace[k].ev = "request" =>
                 /\ k > 2
                 /\ call.trace[k - 1].ev = "callback"
                 /\ call.trace[k - 2].ev = "response"
                 /\ call.trace[k - 1].data = call.trace[k - 2].page.data
        /\ CountEvents(call.trace, "request")
              - CountEvents(call.trace, "response")
              - CountEvents(call.trace, "rejection") \in {0, 1}

\* A traversal that asked for its second page, in either direction.
C3_Witness ==
    \E call \in Traversals :
        /\ call.state = "pending"
        /\ Len(Requests(call)) = 2
        /\ Len(Callbacks(call)) = 1

Range(seq) == {seq[i] : i \in 1..Len(seq)}

\* C4 as stated: a request a helper issues is wrapped only with the functions
\* of that helper's own derivation: never with one that a map or filter call
\* on it, or on a helper derived from the same base, added for another helper.
C4_OnlyOwnFunctions ==
    \A call \in KnownCalls :
        \A r \in Range(Requests(call)) :
            Range(Wrappers(r.q)) \subseteq Range(lineage[call.self])

\* C5 as stated: a derived helper has the set and the params of the base
\* helper, so its requests carry the size the base helper was given.
C5_CloneKeepsParams ==
    /\ \A h \in 2..Len(helpers) :
          /\ helpers[h].set = helpers[1].set
          /\ helpers[h].params = helpers[1].params
    /\ \A call \in KnownCalls :
          \A r \in Range(Requests(call)) : BaseQuery(r.q).size = given.size

\* C6 as stated: every request of a helper derived by adding t1..tk is
\* tk(...t1(Paginate(set, opts))...): exactly these wrappers, innermost first.
C6_WrappersAreOwnChain ==
    \A call \in KnownCalls :
        \A r \in Range(Requests(call)) :
            /\ Wrappers(r.q) = lineage[call.self]
            /\ BaseQuery(r.q).paginate = TheSet

\* C7 as stated: a helper constructed with both before and after holds no
\* after cursor of the caller's and no request carries the caller's after.
C7_AfterDiscarded ==
    (given.before # Undefined /\ given.after # Undefined) =>
        /\ \A h \in 1..Len(helpers) : helpers[h].after # given.after
        /\ \A call \in KnownCalls :
              \A r \in Range(Requests(call)) : BaseQuery(r.q).after # given.after

\* C8 as stated: when the page of a nextPage()/previousPage() call arrives, a
\* cursor it reports replaces the held one and a cursor it lacks leaves the
\* held one as it was, in both directions.
C8_ReportedCursorsReplace ==
    (/\ done.state # "none"
     /\ done.op \in {"nextPage", "previousPage"}
     /\ Len(Responses(done)) = 1)
        => /\ helpers[done.self].after =
                 IF LastPage(done).after # Undefined THEN LastPage(done).after
                 ELSE done.held.after
           /\ helpers[done.self].before =
                 IF LastPage(done).before # Undefined THEN LastPage(done).before
                 ELSE done.held.before

\* The last page of a traversal reports no cursor in the traversal's direction.
HasFinalPage(call) ==
    /\ Len(Responses(call)) > 0
    /\ DirectionCursor(LastPage(call), call.op) = Undefined

\* Request n is the unanswered request of a traversal.
AwaitsPage(n) ==
    \E call \in Traversals : call.state = "pending" /\ Outstanding(call).n = n

\* C9: with every request answered, a traversal is resolved exactly when a
\* page without a cursor in its direction has arrived; until then each page
\* that arrives is followed by another request, and no request of a
\* traversal stays unanswered for ever.
C9_ResolvesIffFinalPage ==
    /\ [](\A call \in Traversals : call.state = "resolved" <=> HasFinalPage(call))
    /\ \A n \in 1..MaxOps : []<>(~AwaitsPage(n))

\* An eachReverse() that resolved on its second page: the first page reported
\* a before cursor, the second did not.
C9_Witness ==
    /\ done.state = "resolved" /\ done.op = "eachReverse"
    /\ Len(Responses(done)) = 2
    /\ Responses(done)[1].page.before # Undefined
    /\ Responses(done)[2].page.before = Undefined

\* C10: when client.query rejects a request, the call rejects with the same
\* error, the failed request is the call's last, the callback has run only
\* for the pages that arrived, and the helper's cursors are as they were.
C10_RejectionPropagates ==
    /\ \A call \in KnownCalls :
          CountEvents(call.trace, "rejection") > 0 =>
             /\ call.state = "rejected"
             /\ call = done
    /\ (done.state # "none" /\ CountEvents(done.trace, "rejection") > 0) =>
          /\ done.state = "rejected"
          /\ done.trace[Len(done.trace)].ev = "rejection"
          /\ done.value = done.trace[Len(done.trace)].error
          /\ done.trace[Len(done.trace) - 1].ev = "request"
          /\ Len(Callbacks(done)) = Len(Responses(done))
          /\ Len(Requests(done)) = Len(Responses(done)) + 1
          /\ Held(done.self) = done.held

\* An each() rejected on its second request, after one page was delivered.
C10_Witness ==
    /\ done.state = "rejected" /\ done.op = "each"
    /\ done.value = TransportError
    /\ Len(Callbacks(done)) = 1
    /\ Len(Requests(done)) = 2

\* ------------------------------------------------------------------ claims on the query constructors

\* The last call was fn and returned a value.
Returned(fn) == outcome.fn = fn /\ ~IsError(outcome.result)

\* w is what the escape makes of the host value v: a plain object becomes a
\* node whose only key is "object", over the same keys in the same order, an
\* array a node over as many elements, and so on inside.
RECURSIVE EscapedLike(_, _)
EscapedLike(w, v) ==
    IF IsPlainObject(v)
    THEN /\ InstanceOfExpr(w) /\ w.class = "Expr"
         /\ IsPlainObject(w.raw)
         /\ Len(w.raw.entries) = 1
         /\ w.raw.entries[1].key = "object"
         /\ IsPlainObject(w.raw.entries[1].value)
         /\ LET fields == w.raw.entries[1].value.entries
            IN /\ Len(fields) = Len(v.entries)
               /\ \A i \in 1..Len(fields) :
                     /\ fields[i].key = v.entries[i].key
                     /\ EscapedLike(fields[i].value, v.entries[i].value)
    ELSE IF IsArray(v)
    THEN /\ InstanceOfExpr(w) /\ w.class = "Expr"
         /\ IsArray(w.raw)
         /\ Len(w.raw.array) = Len(v.array)
         /\ \A i \in 1..Len(v.array) : EscapedLike(w.raw.array[i], v.array[i])
    ELSE TRUE

\* The function-call node with tag key over the argument arg.
FunctionCall(key, arg) ==
    IF key = "object" THEN ObjectFunction(<<arg>>)
    ELSE NewExpr(PlainObject(<<Entry(key, Wrap(arg))>>))

\* The text a node renders as, its first and its last character.
Rendering(node) == ExprToString(node, Undefined)
FirstChar(text) == CharAt(text, 0)
LastChar(text) == CharAt(text, Len(text) - 1)

\* C11: wrap of a plain object m is the node {object: ...} over m's keys, with
\* the plain objects inside m escaped likewise; it renders as {k: v, ...}
\* over the renderings of its values, never as Fn(...); for each key k of m
\* its encoding and its rendering differ from those of the function-call
\* node with tag k over m[k].
C11_PlainObjectEscaped ==
    (outcome.fn = "wrap" /\ IsPlainObject(outcome.args[1])) =>
        LET m == outcome.args[1]
            node == outcome.result
            text == Rendering(node)
        IN /\ ~IsError(node)
           /\ EscapedLike(node, m)
           /\ ~IsError(text)
           /\ FirstChar(text.string) = "{" /\ LastChar(text.string) = "}"
           /\ \A i \in 1..Len(m.entries) :
                 LET call == FunctionCall(m.entries[i].key, m.entries[i].value)
                 IN ~IsError(call) =>
                       /\ Rendering(call) # text
                       /\ JSONStringify(call) # JSONStringify(node)

\* Inside the tree x every plain object is the content of an "object"
\* escape: a node's raw is a function call whose arguments are escaped, the
\* raw of an escape is a plain object of escaped values, an array holds
\* escaped elements, and a plain object anywhere else is not escaped. The
\* expression a Value instance holds is the caller's, not the constructors'.
RECURSIVE OnlyUnderObject(_)
OnlyUnderObject(x) ==
    IF InstanceOfValue(x) THEN TRUE
    ELSE IF InstanceOfExpr(x)
    THEN IF IsPlainObject(x.raw)
         THEN \A i \in 1..Len(x.raw.entries) :
                 LET arg == x.raw.entries[i]
                 IN IF arg.key = "object" /\ IsPlainObject(arg.value)
                    THEN \A j \in 1..Len(arg.value.entries) :
                            OnlyUnderObject(arg.value.entries[j].value)
                    ELSE OnlyUnderObject(arg.value)
         ELSE OnlyUnderObject(x.raw)
    ELSE IF IsArray(x) THEN \A i \in 1..Len(x.array) : OnlyUnderObject(x.array[i])
    ELSE ~IsPlainObject(x)

\* The arguments of the last call hold a plain object.
PlainObjectPassed ==
    \E i \in 1..Len(outcome.args) :
        \/ IsPlainObject(outcome.args[i])
        \/ IsArray(outcome.args[i])
              /\ \E j \in 1..Len(outcome.args[i].array) : IsPlainObject(outcome.args[i].array[j])

\* C12: in the node a query constructor builds, each argument has passed
\* through wrap: a plain object given as an argument (to the variadic
\* constructors, to Do, to Call and to the others) is found in the node only
\* under the "object" escape.
C12_ArgumentsWrapped ==
    (outcome.fn \in Constructors /\ ~IsError(outcome.result) /\ PlainObjectPassed)
        => OnlyUnderObject(outcome.result)

\* The node w holds the elements of the array v in v's order: as many
\* elements, a number, string or boolean of v at the same index of w, and
\* an array of v kept in order at the same index of w.
RECURSIVE KeepsOrder(_, _)
KeepsOrder(w, v) ==
    /\ InstanceOfExpr(w) /\ IsArray(w.raw)
    /\ Len(w.raw.array) = Len(v.array)
    /\ \A i \in 1..Len(v.array) :
          LET elem == v.array[i]
          IN /\ (IsNumber(elem) \/ IsString(elem) \/ IsBoolean(elem)) => w.raw.array[i] = elem
             /\ IsArray(elem) => KeepsOrder(w.raw.array[i], elem)

\* wrap returned its argument, an Expr or Value instance, and the node it
\* made of an array holds the elements in order.
WrapKeeps ==
    Returned("wrap") =>
        /\ InstanceOfExpr(outcome.args[1]) => outcome.result = outcome.args[1]
        /\ IsArray(outcome.args[1]) => KeepsOrder(outcome.result, outcome.args[1])

\* wrap called on what wrap has just returned returns the same again.
WrapAgain ==
    (Returned("wrap") /\ outcome'.fn = "wrap" /\ outcome'.args[1] = outcome.result)
        => outcome'.result = outcome.result

\* C13: wrap is idempotent: where wrap(v) succeeds, wrap(wrap(v)) equals
\* wrap(v); an Expr or Value instance is returned as it is; the node of an
\* array keeps the order of the elements.
C13_WrapIdempotent == [](WrapKeeps) /\ [][WrapAgain]_vars

\* wrap was called on the node wrap had made of [[1, 2], 3] and returned it.
C13_Witness ==
    /\ Returned("wrap")
    /\ subject = List(<<List(<<Num(1), Num(2)>>), Num(3)>>)
    /\ outcome.args[1] = NewExpr(List(<<NewExpr(List(<<Num(1), Num(2)>>)), Num(3)>>))
    /\ outcome.result = outcome.args[1]

\* The argument counts each constructor declares: a number, or null for an
\* open side.
Declared(name) ==
    CASE name \in {"Object", "Var", "IsNonEmpty"} -> [min |-> Num(1), max |-> Num(1)]
      [] name = "If" -> [min |-> Num(3), max |-> Num(3)]
      [] name = "Identity" -> [min |-> Num(0), max |-> Num(0)]
      [] name = "Lambda" -> [min |-> Num(1), max |-> Num(2)]
      [] name = "Select" -> [min |-> Num(2), max |-> Num(3)]
      [] name = "Classes" -> [min |-> Null, max |-> Num(1)]
      [] OTHER -> [min |-> Num(1), max |-> Null]

\* The last call was given fewer arguments than its constructor declares, or
\* more.
OutsideDeclared ==
    LET bounds == Declared(outcome.fn)
        actual == Len(outcome.args)
    IN \/ bounds.min # Null /\ actual < bounds.min.number
       \/ bounds.max # Null /\ actual > bounds.max.number

\* C14: a constructor called with a number of arguments outside the bounds
\* it declares throws InvalidArity with that min, that max (null for an open
\* side) and the number given, and returns no node; called with a number
\* inside the bounds it does not throw InvalidArity.
C14_InvalidArity ==
    outcome.fn \in Constructors =>
        IF OutsideDeclared
        THEN outcome.result =
                [error |-> "InvalidArity",
                 min |-> Declared(outcome.fn).min,
                 max |-> Declared(outcome.fn).max,
                 actual |-> Num(Len(outcome.args))]
        ELSE ~(IsError(outcome.result) /\ outcome.result.error = "InvalidArity")

\* Select was called with four arguments and threw InvalidArity(2, 3, 4).
C14_Witness ==
    /\ outcome.fn = "Select"
    /\ Len(outcome.args) = 4
    /\ outcome.result = [error |-> "InvalidArity", min |-> Num(2), max |-> Num(3), actual |-> Num(4)]

\* The node {var: name}.
VarNode(name) == NewExpr(PlainObject(<<Entry("var", Str(name))>>))

\* The node {lambda: binding, expr: body}.
LambdaNode(binding, body) ==
    NewExpr(PlainObject(<<Entry("lambda", binding), Entry("expr", body)>>))

\* The body of the lambda made of the callable func: what func returns for
\* the nodes it is applied to, its first argument or the array of them all,
\* as a node.
BodyOf(func, nodes) == IF func.returns = "first" THEN nodes[1] ELSE NewExpr(List(nodes))

\* C15: Lambda and wrap, given a callable, throw InvalidValue if it declares
\* no parameter; for one parameter p they return {lambda: p, expr: body}
\* with body the callable applied to Var(p); for two parameters or more the
\* lambda field is the list of the names in the declared order and the
\* callable is applied to the Var nodes in that order.
C15_LambdaOfCallable ==
    (outcome.fn \in {"Lambda", "wrap"} /\ Len(outcome.args) = 1 /\ IsFunction(outcome.args[1])) =>
        LET func == outcome.args[1]
            names == func.function
            nodes == [i \in 1..Len(names) |-> VarNode(names[i])]
        IN IF Len(names) = 0 THEN outcome.result = InvalidValue
           ELSE IF Len(names) = 1
           THEN outcome.result = LambdaNode(Str(names[1]), BodyOf(func, nodes))
           ELSE outcome.result =
                   LambdaNode(NewExpr(List([i \in 1..Len(names) |-> Str(names[i])])),
                              BodyOf(func, nodes))

\* Lambda was called on (a, b, c) => [a, b, c].
C15_Witness ==
    /\ outcome.fn = "Lambda"
    /\ outcome.args = <<Callable(<<"a", "b", "c">>, "list")>>
    /\ outcome.result =
          LambdaNode(NewExpr(List(<<Str("a"), Str("b"), Str("c")>>)),
                     NewExpr(List(<<VarNode("a"), VarNode("b"), VarNode("c")>>)))

\* The tags of the functions rendered with their arguments spread.
VariadicTags ==
    {"do", "call", "union", "intersection", "difference", "equals", "add",
     "multiply", "subtract", "divide", "modulo", "lt", "lte", "gt", "gte",
     "and", "or"}

\* The raw of a node, or a value that is no node.
Unboxed(v) == IF InstanceOfExpr(v) THEN v.raw ELSE v

\* The renderings of the elements of an array, each on its own.
ElementTexts(array) == [i \in 1..Len(array) |-> Rendering(array[i])]

\* Each array among the elements renders inside brackets.
NestedBracketed(array) ==
    \A i \in 1..Len(array) :
        (IsArray(Unboxed(array[i])) /\ ~IsError(Rendering(array[i]))) =>
            /\ FirstChar(Rendering(array[i]).string) = "["
            /\ LastChar(Rendering(array[i]).string) = "]"

\* What an argument of a function with the tag contributes to the text: an
\* array the renderings of its elements joined by ", ", inside brackets
\* unless the tag is variadic; anything else its rendering; the error where
\* an element has no rendering.
ArgumentText(tag, arg) ==
    LET u == Unboxed(arg)
    IN IF IsArray(u)
       THEN LET texts == ElementTexts(u.array)
            IN IF FirstError(texts) # Undefined THEN FirstError(texts)
               ELSE IF tag \in VariadicTags THEN Str(Join(Texts(texts), ", "))
               ELSE Str("[" \o Join(Texts(texts), ", ") \o "]")
       ELSE Rendering(arg)

\* The node is a function call with an array among its arguments.
CallOverArray(node) ==
    /\ InstanceOfExpr(node) /\ ~InstanceOfValue(node)
    /\ IsPlainObject(node.raw)
    /\ Len(node.raw.entries) > 0
    /\ node.raw.entries[1].key # "object"
    /\ \E i \in 1..Len(node.raw.entries) : IsArray(Unboxed(node.raw.entries[i].value))

\* C16: an array [a, b, ...] that is the argument of a function with a
\* variadic tag renders as render(a) + ", " + render(b) + ... without
\* brackets; as the argument of any other function, on its own, and inside
\* another array it renders inside brackets.
C16_VariadicSpread ==
    outcome.fn = "toString" =>
        LET node == outcome.args[1]
        IN /\ CallOverArray(node) =>
                 LET args == node.raw.entries
                     tag == args[1].key
                     texts == [i \in 1..Len(args) |-> ArgumentText(tag, args[i].value)]
                 IN /\ IF FirstError(texts) # Undefined THEN IsError(outcome.result)
                       ELSE outcome.result =
                               Str(FunctionName(tag) \o "(" \o Join(Texts(texts), ", ") \o ")")
                    /\ \A i \in 1..Len(args) :
                          IsArray(Unboxed(args[i].value)) =>
                              NestedBracketed(Unboxed(args[i].value).array)
           /\ IsArray(Unboxed(node)) =>
                 /\ outcome.result = ArgumentText("", node)
                 /\ NestedBracketed(Unboxed(node).array)

\* Add([[1, 2], 3]) was rendered: the array of the arguments is spread, the
\* array inside it keeps its brackets.
C16_Witness ==
    /\ outcome.fn = "toString"
    /\ subject = List(<<List(<<Num(1), Num(2)>>), Num(3)>>)
    /\ outcome.args[1] = Add(<<subject>>)
    /\ outcome.result = Str("Add([1, 2], 3)")

\* A node of the query constructors: an Expr that is no Value instance.
IsNode(v) == InstanceOfExpr(v) /\ ~InstanceOfValue(v)

\* C17: Expr.toString returns a string, and throws nothing, for every node
\* the query constructors build over scalars, null, undefined, arrays,
\* plain objects and Value instances.
C17_RenderTotal ==
    (outcome.fn = "toString" /\ IsNode(outcome.args[1])) => IsString(outcome.result)

\* The value x with every node inside it replaced by the node's raw: the
\* structure the wire text of x spells out.
RECURSIVE RawForm(_)
RawForm(x) ==
    IF InstanceOfValue(x)
    THEN IF x.class \in {"SetRef", "Query"}
         THEN [class |-> x.class, raw |-> RawForm(x.value), value |-> RawForm(x.value)]
         ELSE x
    ELSE IF InstanceOfExpr(x) THEN RawForm(x.raw)
    ELSE IF IsArray(x) THEN List([i \in 1..Len(x.array) |-> RawForm(x.array[i])])
    ELSE IF IsPlainObject(x)
    THEN PlainObject([i \in 1..Len(x.entries) |->
                         Entry(x.entries[i].key, RawForm(x.entries[i].value))])
    ELSE x

\* v is an instance as the data model describes its variant: a Ref of a
\* string id and Refs, a FaunaTime, a FaunaDate of a YYYY-MM-DD string, a
\* Bytes, a SetRef or Query of an expression; x is an expression: null, a
\* string, number or boolean, an array or a plain object of expressions
\* (not one that reads as a tagged value), a node, or such an instance.
RECURSIVE IsExpression(_)
IsExpression(x) ==
    IF InstanceOfValue(x)
    THEN CASE x.class = "Ref" ->
                 /\ IsString(GetKey(x.value, "id"))
                 /\ \A key \in {"class", "database"} :
                       \/ GetKey(x.value, key) = Undefined
                       \/ /\ InstanceOfValue(GetKey(x.value, key))
                          /\ GetKey(x.value, key).class = "Ref"
                          /\ IsExpression(GetKey(x.value, key))
           [] x.class = "FaunaDate" -> IsDateText(x.value)
           [] x.class \in {"SetRef", "Query"} -> IsExpression(x.value)
           [] OTHER -> TRUE
    ELSE IF InstanceOfExpr(x) THEN IsExpression(x.raw)
    ELSE IF IsArray(x) THEN \A i \in 1..Len(x.array) : IsExpression(x.array[i])
    ELSE IF IsPlainObject(x)
    THEN /\ ~(Len(x.entries) = 1 /\ x.entries[1].key \in WireTags)
         /\ \A i \in 1..Len(x.entries) : IsExpression(x.entries[i].value)
    ELSE x = Null \/ IsString(x) \/ IsNumber(x) \/ IsBoolean(x)

\* The wire text of a Value instance of the data model was decoded.
Decoded ==
    /\ outcome.fn = "parseJSON"
    /\ InstanceOfValue(outcome.from)
    /\ IsExpression(outcome.from)

TagOf(class) ==
    CASE class = "Ref" -> "@ref"
      [] class = "SetRef" -> "@set"
      [] class = "FaunaTime" -> "@ts"
      [] class = "FaunaDate" -> "@date"
      [] class = "Bytes" -> "@bytes"
      [] class = "Query" -> "@query"

\* The byte sequences whose base64 text is written out below.
KnownBytes == {<<1, 2, 3, 4>>, <<255, 16>>, <<255>>, <<0, 0, 0, 0>>, <<>>}

\* The base64 text of the bytes 1 2 3 4, of 255 16, of 255, of four zero
\* bytes and of none.
KnownBase64(bytes) ==
    CASE bytes = <<1, 2, 3, 4>> -> "AQIDBA=="
      [] bytes = <<255, 16>> -> "/xA="
      [] bytes = <<255>> -> "/w=="
      [] bytes = <<0, 0, 0, 0>> -> "AAAAAA=="
      [] bytes = <<>> -> ""

\* The JSON value j is a Ref on the wire: the sole key "@ref" over the id
\* and, where the Ref has them, the class and the database as Refs on the
\* wire in turn.
RECURSIVE EncodesRef(_, _)
EncodesRef(j, ref) ==
    /\ IsPlainObject(j)
    /\ Len(j.entries) = 1
    /\ j.entries[1].key = "@ref"
    /\ LET body == j.entries[1].value
       IN /\ IsPlainObject(body)
          /\ GetKey(body, "id") = GetKey(ref.value, "id")
          /\ \A key \in {"class", "database"} :
                IF GetKey(ref.value, key) = Undefined THEN ~HasKey(body, key)
                ELSE EncodesRef(GetKey(body, key), GetKey(ref.value, key))

\* C19: the toJSON method of each Value class returns an object with one
\* key, the tag of the class, over the value held (for Bytes over its
\* base64 text), and that of a plain Expr returns the raw with no key
\* added; on the wire an instance of the data model is the object of that
\* one key, a Ref over its id and its class and database encoded in turn,
\* and a plain Expr is the encoding of its raw.
C19_SingleKeyEncoding ==
    (outcome.fn = "toJSON" /\ InstanceOfExpr(outcome.args[1])) =>
        LET v == outcome.args[1]
            own == outcome.returned
            j == outcome.json
        IN IF InstanceOfValue(v)
           THEN /\ IsPlainObject(own)
                /\ Len(own.entries) = 1
                /\ own.entries[1].key = TagOf(v.class)
                /\ own.entries[1].value =
                      IF v.class # "Bytes" THEN v.value
                      ELSE IF v.value.uint8array \in KnownBytes
                      THEN Str(KnownBase64(v.value.uint8array))
                      ELSE Str(FromByteArray(v.value.uint8array))
                /\ IsExpression(v) =>
                      /\ IsPlainObject(j)
                      /\ Len(j.entries) = 1
                      /\ j.entries[1].key = TagOf(v.class)
                      /\ j.entries[1].value = SerializeJSONProperty(own.entries[1].value)
                      /\ v.class = "Ref" => EncodesRef(j, v)
           ELSE /\ own = v.raw
                /\ j = SerializeJSONProperty(v.raw)

\* new Ref('123', new Ref('frogs', Native.CLASSES)) was encoded.
C19_Witness ==
    /\ outcome.fn = "toJSON"
    /\ outcome.args[1] = FrogRef
    /\ outcome.result =
          Str("{\"@ref\":{\"id\":\"123\",\"class\":{\"@ref\":{\"id\":\"frogs\",\"class\":{\"@ref\":{\"id\":\"classes\"}}}}}}")

\* The Ref instances found in a value: the value itself, the class and the
\* database of a Ref, and those held in arrays, objects, nodes and the other
\* Value instances.
RECURSIVE RefsIn(_)
RefsIn(x) ==
    IF InstanceOfValue(x)
    THEN IF x.class = "Ref"
         THEN {x} \cup RefsIn(GetKey(x.value, "class")) \cup RefsIn(GetKey(x.value, "database"))
         ELSE RefsIn(x.value)
    ELSE IF InstanceOfExpr(x) THEN RefsIn(x.raw)
    ELSE IF IsArray(x) THEN UNION { RefsIn(x.array[i]) : i \in 1..Len(x.array) }
    ELSE IF IsPlainObject(x)
    THEN UNION { RefsIn(x.entries[i].value) : i \in 1..Len(x.entries) }
    ELSE {}

\* The Ref instances of the state: in the caller's value and in what the
\* last call returned.
RefsHeld ==
    RefsIn(subject) \cup (IF outcome = NoOutcome THEN {} ELSE RefsIn(outcome.result))

\* An id that is missing, null or empty.
NoId(id) == id \in {Undefined, Null, Str("")}

\* Every Ref has an id; new Ref without one threw InvalidValue and with one
\* returned the Ref of that id (an id that is no string may be refused
\* too); wrap and the constructors return the Refs
\* they were given, as they were.
RefsHaveIds ==
    /\ \A ref \in RefsHeld : ~NoId(GetKey(ref.value, "id"))
    /\ outcome.fn = "Ref" =>
          IF NoId(outcome.args[1]) THEN outcome.result = InvalidValue
          ELSE \/ ~IsString(outcome.args[1]) /\ outcome.result = InvalidValue
               \/ /\ InstanceOfValue(outcome.result)
                  /\ outcome.result.class = "Ref"
                  /\ GetKey(outcome.result.value, "id") = outcome.args[1]
    /\ (outcome.fn \in Constructors \cup {"wrap"} /\ ~IsError(outcome.result)) =>
          RefsIn(outcome.result) \subseteq RefsIn(List(outcome.args))

\* C20: every Ref instance has a non-empty id: new Ref with a missing, null
\* or empty id throws InvalidValue and yields no instance, and no call
\* changes a Ref made before, the caller's or one held in a value.
C20_RefIdNonEmpty == [](RefsHaveIds) /\ [][subject' = subject]_vars

\* new Ref('') threw InvalidValue.
C20_Witness ==
    /\ outcome.fn = "Ref"
    /\ outcome.args[1] = Str("")
    /\ outcome.result = InvalidValue

\* ------------------------------------------------------------------ claims on the values

\* The Refs a and b have equal ids, and at class and at database both have
\* none or both have one and these are equal in the same way.
RECURSIVE StructurallyEqual(_, _)
StructurallyEqual(a, b) ==
    /\ GetKey(a.value, "id") = GetKey(b.value, "id")
    /\ \A key \in {"class", "database"} :
          LET x == GetKey(a.value, key)
              y == GetKey(b.value, key)
          IN IF x = Undefined \/ y = Undefined THEN x = y
             ELSE StructurallyEqual(x, y)

\* C21: a.equals(b) on Refs a and b returns a boolean and throws nothing: true
\* exactly when the ids are equal and class and database are each absent
\* in both or equal in the same way; hence a.equals(b) = b.equals(a).
C21_RefEqualsStructural ==
    (outcome.fn = "equals" /\ IsRef(outcome.args[2])) =>
        outcome.result = Bool(StructurallyEqual(outcome.args[1], outcome.args[2]))

\* The wire text of a FaunaTime that holds the text.
TimeOnWire(text) == Str("{\"@ts\":\"" \o text \o "\"}")

\* new FaunaTime of a string returned the instance that holds the string
\* as it is, if its last character is Z, and threw InvalidValue if not; an
\* instance is written to the wire as {"@ts": the string held}.
TimeOfString ==
    /\ (outcome.fn = "FaunaTime" /\ IsString(outcome.args[1])) =>
          IF LastChar(outcome.args[1].string) = "Z"
          THEN /\ InstanceOfValue(outcome.result)
               /\ outcome.result.class = "FaunaTime"
               /\ outcome.result.value = outcome.args[1]
          ELSE outcome.result = InvalidValue
    /\ (outcome.fn = "toJSON" /\ InstanceOfValue(outcome.args[1])
          /\ outcome.args[1].class = "FaunaTime") =>
          outcome.result = TimeOnWire(outcome.args[1].value.string)

\* C22 as stated: new FaunaTime of a string succeeds exactly when the string
\* ends in Z, and then holds and encodes the string as it is; any other
\* string throws InvalidValue; new FaunaTime of a Date always succeeds and
\* holds the Date's ISO-8601 UTC string.
C22_TimeOfStringOrDate ==
    /\ TimeOfString
    /\ (outcome.fn = "FaunaTime" /\ IsDate(outcome.args[1])) =>
          /\ InstanceOfValue(outcome.result)
          /\ outcome.result.class = "FaunaTime"
          /\ LastChar(outcome.result.value.string) = "Z"

\* C22 as amended: the same for strings; new FaunaTime of a Date that holds
\* a time succeeds and holds the Date's ISO-8601 UTC string, and of a Date
\* that holds none (new Date(NaN)) throws the RangeError of toISOString.
C22_TimeOfStringOrValidDate ==
    /\ TimeOfString
    /\ (outcome.fn = "FaunaTime" /\ IsDate(outcome.args[1])) =>
          IF outcome.args[1] = InvalidDate THEN outcome.result = RangeError
          ELSE /\ InstanceOfValue(outcome.result)
               /\ outcome.result.class = "FaunaTime"
               /\ outcome.result.value =
                     Str(outcome.args[1].date \o outcome.args[1].time)
               /\ LastChar(outcome.result.value.string) = "Z"

\* new FaunaTime('1970-01-01T00:00:00.123456789Z') was written to the wire.
C22_Witness ==
    /\ outcome.fn = "toJSON"
    /\ subject = Str("1970-01-01T00:00:00.123456789Z")
    /\ outcome.args[1] = NewFaunaTime(subject)
    /\ outcome.result = Str("{\"@ts\":\"1970-01-01T00:00:00.123456789Z\"}")

\* The base64 texts the callers pass and the bytes each stands for.
Base64Texts == {"AQIDBA==", "AAAAAA=="}

BytesOfText(text) ==
    CASE text = "AQIDBA==" -> <<1, 2, 3, 4>>
      [] text = "AAAAAA==" -> <<0, 0, 0, 0>>

\* The bytes a source of Bytes denotes: those of the base64 text, of the
\* Uint8Array, of the ArrayBuffer.
IsByteSource(v) ==
    \/ IsString(v) /\ v.string \in Base64Texts
    \/ IsUint8Array(v)
    \/ IsArrayBuffer(v)

Denoted(v) ==
    IF IsString(v) THEN BytesOfText(v.string)
    ELSE IF IsUint8Array(v) THEN v.uint8array
    ELSE v.arraybuffer

\* C23: new Bytes of a base64 string, of a Uint8Array and of an ArrayBuffer
\* holds the bytes the source denotes and is written to the wire as
\* {"@bytes": the base64 text of those bytes}, so sources of the same bytes
\* encode alike; new Bytes of a value of any other type (a number, a plain
\* object, an array, null, undefined) throws InvalidValue.
C23_BytesOfSources ==
    /\ outcome.fn = "Bytes" =>
          IF IsByteSource(outcome.args[1])
          THEN /\ InstanceOfValue(outcome.result)
               /\ outcome.result.class = "Bytes"
               /\ outcome.result.value = Uint8Array(Denoted(outcome.args[1]))
          ELSE ~IsString(outcome.args[1]) => outcome.result = InvalidValue
    /\ (outcome.fn = "toJSON" /\ InstanceOfValue(outcome.args[1])
          /\ outcome.args[1].class = "Bytes"
          /\ outcome.args[1].value.uint8array \in KnownBytes) =>
          outcome.result =
             Str("{\"@bytes\":\"" \o KnownBase64(outcome.args[1].value.uint8array) \o "\"}")

\* new Bytes(new ArrayBuffer of the bytes 1 2 3 4) was written to the wire
\* as the base64 string of the same bytes is.
C23_Witness ==
    /\ outcome.fn = "toJSON"
    /\ subject = ArrayBuffer(<<1, 2, 3, 4>>)
    /\ outcome.args[1] = NewBytes(subject)
    /\ outcome.args[1] = NewBytes(Str("AQIDBA=="))
    /\ outcome.result = Str("{\"@bytes\":\"AQIDBA==\"}")

\* ==================================================================
\* The client (Client.ts) and the errors it rejects with (errors.ts).
\* ------------------------------------------------------------------ Client

\* The number of requests made on the client in a run.
MaxRequests == 2

\* The observer the tests configure: a function that logs the RequestResult.
Logger == [function |-> "logger"]

Observers == {Null, Logger}

\* The value of one decimal digit.
DigitValue(c) == CHOOSE d \in 0..9 : CharAt("0123456789", d) = c

\* parseInt(text, 10) of a string of decimal digits.
RECURSIVE ParseDigits(_, _)
ParseDigits(text, sofar) ==
    IF Len(text) = 0 THEN sofar
    ELSE ParseDigits(Slice(text, 1), sofar * 10 + DigitValue(CharAt(text, 0)))

ParseInt(v) == Num(ParseDigits(v.string, 0))

\* What the transport can answer a request with: no response at all, or a
\* response with a status, headers and a body.
NetworkFailure == [failure |-> "no response"]

HttpResponse(status, header, text) == [status |-> status, header |-> header, text |-> text]

\* The statuses of the responses: a success, the seven statuses errors.ts
\* names, one in 400..599 it does not name, and one outside 400..599.
Statuses == {200, 304, 400, 401, 403, 404, 405, 409, 500, 503}

\* The headers of a response: with or without x-last-seen-txn.
Headers ==
    {PlainObject(<<>>)} \cup
    {PlainObject(<<Entry("x-last-seen-txn", Str(t))>>) : t \in {"9", "10"}}

\* The bodies of a response, as the JSON they hold: a resource, a list of
\* errors, neither, and a resource whose "@ref" lacks its id.
Bodies ==
    { PlainObject(<<Entry("resource", Str("Scope write is OK"))>>),
      PlainObject(<<Entry("errors",
                      List(<<PlainObject(<<Entry("code", Str("unauthorized"))>>)>>))>>),
      PlainObject(<<>>),
      PlainObject(<<Entry("resource",
                      PlainObject(<<Entry("@ref", PlainObject(<<>>))>>))>>) }

HttpResponses ==
    {HttpResponse(s, h, t) : s \in Statuses, h \in Headers, t \in Bodies}

\* The error superagent hands to the callback of rq.end: an Error without a
\* response when none arrived, an Error holding the response when its status
\* is not 2xx, null otherwise.
TransportErrorOf(answer) ==
    IF answer = NetworkFailure THEN [error |-> "Error", response |-> Undefined]
    ELSE IF answer.status >= 200 /\ answer.status <= 299 THEN Null
    ELSE [error |-> "Error", response |-> answer]

\* The result superagent hands to the callback of rq.end.
TransportResultOf(answer) == IF answer = NetworkFailure THEN Undefined ELSE answer

\* The callback of rq.end in _performRequest: the promise is rejected with
\* the error, or resolved with the result.
RqEnd(error, result) ==
    IF error # Null /\ error.response = Undefined
    THEN [settle |-> "reject", value |-> error]
    ELSE IF /\ error # Null
            /\ ~(error.response.status >= 400 /\ error.response.status <= 599)
    THEN [settle |-> "reject", value |-> error]
    ELSE [settle |-> "resolve", value |-> result]

\* new RequestResult(...): the fields read later.
RequestResult(response, responseObject) ==
    [responseContent |-> responseObject, statusCode |-> response.status,
     responseHeaders |-> response.header]

\* new FaunaHTTPError(name, requestResult): the message is read from
\* requestResult.responseContent.errors, which throws when there is none.
FaunaHTTPError(name, requestResult) ==
    LET errors == GetKey(requestResult.responseContent, "errors") IN
    IF errors = Undefined THEN TypeError
    ELSE [error |-> "FaunaHTTPError", name |-> name,
          message |-> IF Len(errors.array) = 0 THEN Str("(empty \"errors\")")
                      ELSE GetKey(errors.array[1], "code"),
          requestResult |-> requestResult]

\* FaunaHTTPError.raiseForStatusCode(requestResult): the error thrown, or
\* Undefined when nothing is thrown.
RaiseForStatusCode(requestResult) ==
    LET code == requestResult.statusCode IN
    IF code < 200 \/ code >= 300
    THEN CASE code = 400 -> FaunaHTTPError("BadRequest", requestResult)
           [] code = 401 -> FaunaHTTPError("Unauthorized", requestResult)
           [] code = 403 -> FaunaHTTPError("PermissionDenied", requestResult)
           [] code = 404 -> FaunaHTTPError("NotFound", requestResult)
           [] code = 405 -> FaunaHTTPError("MethodNotAllowed", requestResult)
           [] code = 500 -> FaunaHTTPError("InternalError", requestResult)
           [] code = 503 -> FaunaHTTPError("UnavailableError", requestResult)
           [] OTHER -> FaunaHTTPError("UnknownError", requestResult)
    ELSE Undefined

\* A variant of the update of _lastSeen that takes the header's value as it comes.
LastSeenLatest(lastSeen, header) ==
    IF HasKey(header, "x-last-seen-txn")
    THEN ParseInt(GetKey(header, "x-last-seen-txn"))
    ELSE lastSeen

\* _lastSeen after the header of a response was read.
LastSeenAfter(lastSeen, header) ==
    IF HasKey(header, "x-last-seen-txn")
    THEN LET time == ParseInt(GetKey(header, "x-last-seen-txn")) IN
         IF lastSeen = Null THEN time
         ELSE IF lastSeen.number < time.number THEN time
         ELSE lastSeen
    ELSE lastSeen

\* What the handler of _execute does, in order: the observer is called with
\* the RequestResult, and can read the client's _lastSeen through it; the
\* handler returns or throws.
Observed(requestResult, lastSeen) ==
    [ev |-> "observer", requestResult |-> requestResult, lastSeen |-> lastSeen]

Throw(error) == [ev |-> "throw", error |-> error]

Return(value) == [ev |-> "return", value |-> value]

\* A variant of the handler of _execute that calls the observer first.
ThenHandlerObserverFirst(self, response) ==
    LET responseObject == Decode(response.text) IN
    IF IsError(responseObject)
    THEN [client |-> self, trace |-> <<Throw(responseObject)>>]
    ELSE LET requestResult == RequestResult(response, responseObject)
             seen == LastSeenAfter(self.lastSeen, response.header)
             observed == IF self.observer # Null
                         THEN <<Observed(requestResult, self.lastSeen)>> ELSE <<>>
             raised == RaiseForStatusCode(requestResult)
         IN [client |-> [self EXCEPT !.lastSeen = seen],
             trace |-> observed \o
                       <<IF raised # Undefined THEN Throw(raised)
                         ELSE Return(GetKey(responseObject, "resource"))>>]

\* The handler _execute chains on _performRequest, run on a response: the
\* client after it and what it did.  The body is decoded first, _lastSeen is
\* updated, the observer is called, the status is checked, the resource is
\* returned.
ThenHandler(self, response) ==
    LET responseObject == Decode(response.text) IN
    IF IsError(responseObject)
    THEN [client |-> self, trace |-> <<Throw(responseObject)>>]
    ELSE LET requestResult == RequestResult(response, responseObject)
             seen == LastSeenAfter(self.lastSeen, response.header)
             observed == IF self.observer # Null
                         THEN <<Observed(requestResult, seen)>> ELSE <<>>
             raised == RaiseForStatusCode(requestResult)
         IN [client |-> [self EXCEPT !.lastSeen = seen],
             trace |-> observed \o
                       <<IF raised # Undefined THEN Throw(raised)
                         ELSE Return(GetKey(responseObject, "resource"))>>]

\* The X-Last-Seen-Txn header _performRequest sets: _lastSeen, if truthy.
LastSeenHeader(self) == IF Falsy(self.lastSeen) THEN Undefined ELSE self.lastSeen

\* The x-last-seen-txn header of a response delivered to the handler, and
\* whether the body of the response decoded.
Delivery(response) ==
    [txn |-> ParseInt(GetKey(response.header, "x-last-seen-txn")).number,
     decoded |-> ~IsError(Decode(response.text))]

\* ------------------------------------------------------------------ Client: calls

ClientInit ==
    /\ client \in {NewClient(observer) : observer \in Observers}
    /\ pending = <<>>
    /\ requested = 0
    /\ settled = NoExchange
    /\ received = {}
    /\ subject = Undefined
    /\ outcome = NoOutcome
    /\ given = [size |-> SizeParam, before |-> Undefined, after |-> Undefined]
    /\ helpers = <<Constructor(TheSet, given, 1)>>
    /\ arrays = << <<>> >>
    /\ lineage = << <<>> >>
    /\ calls = <<>>
    /\ done = NoCall
    /\ issued = 0

pvars == <<helpers, arrays, lineage, calls, done, issued, given, subject, outcome>>

\* client.query(expression): _execute calls _performRequest, which sends the
\* request with the X-Last-Seen-Txn header.
Query ==
    /\ requested < MaxRequests
    /\ requested' = requested + 1
    /\ pending' = Append(pending, [n |-> requested + 1, lastSeen |-> LastSeenHeader(client)])
    /\ UNCHANGED <<client, settled, received, pvars>>

\* The promise of a request settles.
SettleRequest(i, answer, state, value, trace) ==
    /\ settled' = [n |-> pending[i].n, answer |-> answer, state |-> state,
                   value |-> value, trace |-> trace, before |-> client.lastSeen]
    /\ pending' = Remove(pending, i)

\* rq.end calls back with what the transport got for a request: the promise
\* of _performRequest is rejected, or it is resolved and the handler of
\* _execute runs.
TransportAnswers(i, answer) ==
    LET end == RqEnd(TransportErrorOf(answer), TransportResultOf(answer)) IN
    /\ IF end.settle = "reject"
       THEN /\ SettleRequest(i, answer, "rejected", end.value, <<>>)
            /\ UNCHANGED <<client, received>>
       ELSE LET ran == ThenHandler(client, end.value)
                last == ran.trace[Len(ran.trace)]
            IN /\ client' = ran.client
               /\ received' = IF HasKey(answer.header, "x-last-seen-txn")
                              THEN received \cup {Delivery(answer)} ELSE received
               /\ IF last.ev = "throw"
                  THEN SettleRequest(i, answer, "rejected", last.error, ran.trace)
                  ELSE SettleRequest(i, answer, "resolved", last.value, ran.trace)
    /\ UNCHANGED <<requested, pvars>>

\* No response arrives for a request (a timeout, a connection refused).
TransportFails(i) == TransportAnswers(i, NetworkFailure)

\* A response arrives for a request.
ResponseArrives(i, response) == TransportAnswers(i, response)

ClientNext ==
    \/ Query
    \/ \E i \in 1..Len(pending) : TransportFails(i)
    \/ \E i \in 1..Len(pending) : \E response \in HttpResponses : ResponseArrives(i, response)

ClientSpec == ClientInit /\ [][ClientNext]_vars

\* ------------------------------------------------------------------ claims on the helper's requests

\* A helper returned by map() or filter(): every helper but the constructed one.
IsDerived(h) == h > 1

\* C24 as stated: on a helper returned by map() or filter(), a nextPage() or
\* previousPage() call whose page arrived resolves with the page's data, the
\* cursors the page reports replace the held ones, and a nextPage() made on
\* such a helper sends the after cursor held when it was made.
C24_DerivedHelperPages ==
    /\ (/\ done.state # "none"
        /\ IsDerived(done.self)
        /\ done.op \in {"nextPage", "previousPage"}
        /\ Len(Responses(done)) = 1)
          => /\ done.state = "resolved"
             /\ done.value = LastPage(done).data
             /\ LastPage(done).after # Undefined =>
                   helpers[done.self].after = LastPage(done).after
             /\ LastPage(done).before # Undefined =>
                   helpers[done.self].before = LastPage(done).before
    /\ \A call \in KnownCalls :
          (IsDerived(call.self) /\ call.op = "nextPage") =>
             BaseQuery(Requests(call)[1].q).after = call.made.after

PageCalls == {call \in KnownCalls : call.op \in {"nextPage", "previousPage"}}

\* The Paginate node of the only request of a nextPage/previousPage call.
Sent(call) == BaseQuery(Requests(call)[1].q)

\* The option the params of a helper hold under a key; a helper returned by
\* map or filter has no params.
ParamHeld(h, key) ==
    IF helpers[h].params = Undefined THEN Undefined ELSE helpers[h].params[key]

\* C25 as stated: a nextPage()/previousPage() call issues exactly one query;
\* nextPage sends the held after cursor as after, previousPage the held
\* before cursor as before; when no cursor was held in the call's direction
\* the request carries neither a before nor an after option.
C25_NoCursorNoOption ==
    \A call \in PageCalls :
        /\ Len(Requests(call)) = 1
        /\ (call.op = "nextPage" /\ call.made.after # Undefined) =>
              Sent(call).after = call.made.after
        /\ (call.op = "previousPage" /\ call.made.before # Undefined) =>
              Sent(call).before = call.made.before
        /\ DirectionCursor(call.made, IF call.op = "previousPage"
                                      THEN "eachReverse" ELSE "each") = Undefined =>
              /\ Sent(call).before = Undefined
              /\ Sent(call).after = Undefined

\* C25 amended: a nextPage()/previousPage() call issues exactly one query;
\* nextPage sends the held after cursor as after, previousPage the held
\* before cursor as before; when no cursor was held in the call's direction,
\* previousPage sends before: null and nextPage sets no option; a call sets
\* no option in the other direction: the rest is what the params hold.
C25_PreviousPageSendsNull ==
    \A call \in PageCalls :
        /\ Len(Requests(call)) = 1
        /\ call.op = "nextPage" =>
              /\ Sent(call).after =
                    IF call.made.after # Undefined THEN call.made.after
                    ELSE ParamHeld(call.self, "after")
              /\ Sent(call).before = ParamHeld(call.self, "before")
        /\ call.op = "previousPage" =>
              /\ Sent(call).before =
                    IF call.made.before # Undefined THEN call.made.before ELSE Null
              /\ Sent(call).after = ParamHeld(call.self, "after")

\* A first previousPage() on a helper constructed without cursors resolved:
\* its one request carried before: null and no after option.
C25_Witness ==
    /\ done.state = "resolved" /\ done.op = "previousPage"
    /\ given.before = Undefined /\ given.after = Undefined
    /\ done.made.before = Undefined
    /\ Len(Requests(done)) = 1
    /\ Sent(done).before = Null
    /\ Sent(done).after = Undefined

\* A step of a traversal: an each()/eachReverse() call is made, a page of
\* one arrives, or one settles.
TraversalStep ==
    \/ /\ Len(calls') = Len(calls) + 1
       /\ IsTraversal(calls'[Len(calls')].op)
    \/ /\ Len(calls') = Len(calls)
       /\ \E c \in 1..Len(calls) :
             IsTraversal(calls[c].op) /\ calls'[c].trace # calls[c].trace
    \/ /\ done' # done
       /\ IsTraversal(done'.op)

\* The first request of a call carries, in the call's direction, the cursor
\* the helper held when the call was made.
StartsFromHeld(call) ==
    LET sent == IF IsReverse(call.op) THEN BaseQuery(Requests(call)[1].q).before
                ELSE BaseQuery(Requests(call)[1].q).after
        held == IF IsReverse(call.op) THEN call.made.before ELSE call.made.after
    IN held # Undefined => sent = held

\* C29: no step of an each()/eachReverse() traversal changes a helper's held
\* cursors; every call, a traversal or a nextPage()/previousPage(), starts
\* from the cursor the helper held when it was made, and the later requests
\* of a traversal carry the cursor of the page before, which the helper does
\* not take over.
C29_TraversalKeepsCursors ==
    /\ [][TraversalStep => helpers' = helpers]_vars
    /\ [](\A call \in KnownCalls :
            /\ StartsFromHeld(call)
            /\ \A i \in 2..Len(Requests(call)) :
                  SentCursor(Requests(call)[i].q, call.op) =
                     DirectionCursor(Responses(call)[i - 1].page, call.op))

\* An each() on a helper constructed with an after cursor resolved after two
\* pages, the first of which reported an after cursor; the helper still holds
\* the caller's cursor and a nextPage() made after the traversal sent it.
C29_Witness ==
    /\ done.state = "resolved" /\ done.op = "each"
    /\ Len(Responses(done)) = 2
    /\ IsServerCursor(Responses(done)[1].page.after)
    /\ done.made.after = CallerCursor("after")
    /\ helpers[done.self].after = CallerCursor("after")
    /\ \E call \in PageCalls :
          /\ call.op = "nextPage" /\ call.self = done.self
          /\ Requests(call)[1].n > Requests(done)[2].n
          /\ Sent(call).after = CallerCursor("after")

\* Two calls were started before the answer to either arrived: the request of
\* one was awaiting its answer when the other was made.
StartedTogether(a, b) ==
    \/ Requests(a)[1].n \in b.unanswered
    \/ Requests(b)[1].n \in a.unanswered

\* A step in which the second of two nextPage() calls on one helper, started
\* before either response arrived, resolves right after the first.
BothResolve ==
    /\ done.state = "resolved" /\ done.op = "nextPage"
    /\ done' # done
    /\ done'.state = "resolved" /\ done'.op = "nextPage"
    /\ done'.self = done.self
    /\ StartedTogether(done, done')

\* A nextPage() call sent the after cursor held when it was made.
SentHeldAfter(call) ==
    Sent(call).after =
        IF call.made.after # Undefined THEN call.made.after
        ELSE ParamHeld(call.self, "after")

Answered == settled.state # "none" /\ settled.answer # NetworkFailure

IsSuccess(status) == status >= 200 /\ status <= 299

\* The name the claim gives the error of a status.
NameOfStatus(status) ==
    CASE status = 400 -> "BadRequest"
      [] status = 401 -> "Unauthorized"
      [] status = 403 -> "PermissionDenied"
      [] status = 404 -> "NotFound"
      [] status = 405 -> "MethodNotAllowed"
      [] status = 500 -> "InternalError"
      [] status = 503 -> "UnavailableError"
      [] OTHER -> "UnknownError"

IsFaunaHTTPError(v) == IsError(v) /\ v.error = "FaunaHTTPError"

\* C26 as stated: a query resolves, with the resource field of the response,
\* only when the status of the response is in 200..299; for a response with
\* any other status it rejects with a FaunaHTTPError whose name the status
\* fixes: UnknownError for every status the errors do not name.
C26_StatusFixesError ==
    Answered =>
        /\ settled.state = "resolved" =>
              /\ IsSuccess(settled.answer.status)
              /\ settled.value = GetKey(settled.answer.text, "resource")
        /\ ~IsSuccess(settled.answer.status) =>
              /\ settled.state = "rejected"
              /\ IsFaunaHTTPError(settled.value)
              /\ settled.value.name = NameOfStatus(settled.answer.status)

\* The largest of a set of numbers, as the value _lastSeen holds; null for none.
Largest(txns) ==
    IF txns = {} THEN Null ELSE Num(CHOOSE t \in txns : \A u \in txns : u <= t)

\* A step in which _lastSeen does not decrease.
NoDecrease ==
    client.lastSeen # Null =>
        /\ client'.lastSeen # Null
        /\ client'.lastSeen.number >= client.lastSeen.number

\* A step in which a response without the x-last-seen-txn header is answered
\* leaves _lastSeen as it is.
NoHeaderNoChange ==
    (/\ settled' # settled
     /\ settled'.answer # NetworkFailure
     /\ ~HasKey(settled'.answer.header, "x-last-seen-txn"))
        => client'.lastSeen = client.lastSeen

\* C27 as stated: _lastSeen never decreases; whatever the order in which the
\* responses are processed, those to requests outstanding together and those
\* with an error status included, it is the largest x-last-seen-txn value of
\* the responses delivered so far, null if none had one; a response without
\* the header leaves it unchanged.
C27_LargestReceived ==
    /\ [](client.lastSeen = Largest({r.txn : r \in received}))
    /\ [][NoDecrease /\ NoHeaderNoChange]_vars

\* C27 amended: the same, of the responses delivered so far whose body
\* decoded: a response whose body does not decode leaves _lastSeen unchanged.
C27_LargestDecoded ==
    /\ [](client.lastSeen = Largest({r.txn : r \in {d \in received : d.decoded}}))
    /\ [][NoDecrease /\ NoHeaderNoChange]_vars

\* Two requests were outstanding together; the second was answered first,
\* with x-last-seen-txn: 10; then the first was answered with status 401 and
\* x-last-seen-txn: 9, and _lastSeen is still 10.
C27_Witness ==
    /\ Answered
    /\ settled.state = "rejected" /\ settled.n = 1
    /\ requested = 2 /\ pending = <<>>
    /\ settled.answer.status = 401
    /\ IsFaunaHTTPError(settled.value)
    /\ GetKey(settled.answer.header, "x-last-seen-txn") = Str("9")
    /\ settled.before = Num(10)
    /\ client.lastSeen = Num(10)

\* The request settled last was answered with a response that _performRequest
\* hands to the handler of _execute: one with a 2xx or a 4xx/5xx status.
Delivered ==
    /\ Answered
    /\ \/ IsSuccess(settled.answer.status)
       \/ settled.answer.status >= 400 /\ settled.answer.status <= 599

\* The invocations of the observer in the handling of the last response.
Observations == SelectSeq(settled.trace, LAMBDA e : e.ev = "observer")

\* The observer was invoked once, when _lastSeen had been updated and before
\* the handler returned or threw; not at all when no observer is configured.
ObservedOnce ==
    IF client.observer = Null THEN Observations = <<>>
    ELSE /\ Len(Observations) = 1
         /\ Observations[1].lastSeen = client.lastSeen
         /\ Observations[1].requestResult.statusCode = settled.answer.status
         /\ settled.trace[Len(settled.trace)].ev \in {"return", "throw"}

\* C28 as stated: for every response delivered to the handler of _execute,
\* with an error status or not, the configured observer is invoked exactly
\* once, after _lastSeen was updated and before the promise settles; when the
\* transport rejects, the observer is not invoked.
C28_ObservedEveryResponse ==
    /\ Delivered => ObservedOnce
    /\ (settled.state # "none" /\ ~Delivered) => Observations = <<>>

\* C28 amended: the same for every delivered response whose body decodes;
\* for one whose body does not decode the observer is not invoked.
C28_ObservedEveryDecoded ==
    /\ (Delivered /\ ~IsError(Decode(settled.answer.text))) => ObservedOnce
    /\ (Delivered /\ IsError(Decode(settled.answer.text))) => Observations = <<>>
    /\ (settled.state # "none" /\ ~Delivered) => Observations = <<>>

\* A response with status 401 and x-last-seen-txn: 10 arrived at a client
\* with an observer: the observer was called once and read _lastSeen = 10,
\* then the promise rejected with Unauthorized.
C28_Witness ==
    /\ Delivered
    /\ client.observer = Logger
    /\ settled.answer.status = 401
    /\ settled.before # Num(10)
    /\ Len(settled.trace) = 2
    /\ settled.trace[1].ev = "observer"
    /\ settled.trace[1].lastSeen = Num(10)
    /\ settled.trace[2].ev = "throw"
    /\ settled.state = "rejected"
    /\ IsFaunaHTTPError(settled.value)
    /\ settled.value.name = "Unauthorized"

====
